---- MODULE Spec2Model ----
(***************************************************************************)
(* Mobile navigation overlay of mod_pagespeed (mobilize_nav.js).           *)
(*                                                                         *)
(* Nine specifications share  the variables of this module:               *)
(*   SpecPanel    the construction of the nav panel from the discovered    *)
(*                sections (labelNavDepth_, constructNavPanel_,            *)
(*                dedupNavMenuItems_, cleanupNavPanel_), checked over      *)
(*                bounded families of section DOMs;                        *)
(*   SpecFind     the discovery of the sections (findNavSections_,         *)
(*                canEnlargeNav_, hasImages_), checked over bounded        *)
(*                families of documents and id lists;                      *)
(*   SpecOffsets  the pre-pass that collects the elements to offset        *)
(*                (findElementsToOffset_), checked over bounded families   *)
(*                of styled element trees;                                 *)
(*   Spec         the redraw coordinator and the open/closed interaction   *)
(*                state machine, driven by the host's events;              *)
(*   SpecSettle   the coordinator after the user's last gesture, with the  *)
(*                timer and the events the overlay sets off itself;        *)
(*   SpecScroll   the coordinator with the window's scroll position, under *)
(*                clicks, scrolls and zooms;                               *)
(*   SpecTouch    the coordinator under touches on the open or closed nav  *)
(*                panel;                                                   *)
(*   SpecGroups   the coordinator under clicks on the group labels of the  *)
(*                panel;                                                   *)
(*   SpecBeacon   the critical images beacon (criticalImagesBeaconInit,    *)
(*                addHandler, checkCriticalImages_) on a page that loads.  *)
(***************************************************************************)
EXTENDS Integers, Sequences, FiniteSets, TLC

VARIABLES
    pc,               \* "new" (constructed), "ran" (Run has returned or thrown);
                      \* in SpecPanel "construct" and "built", in SpecFind
                      \* "find", "found" and "refound", in SpecOffsets "scan"
                      \* and "scanned", in SpecSettle also "still" and "scrolled",
                      \* in SpecBeacon "script" and "init"
    navSections_,     \* this.navSections_: the discovered section subtrees
    psLayoutMode,     \* window.psLayoutMode
    navATags,         \* per section, the array labelNavDepth_ returned
    walked,           \* the navTopUl tree after the pairwise walk, before dedup
    deduped,          \* the navTopUl tree right after dedupNavMenuItems_
    navPanel_,        \* the navTopUl tree of this.navPanel_ when construction ended
    threw,            \* the last call ended by an uncaught TypeError
    mob,              \* the fields of the MobNav instance (this); in SpecBeacon
                      \* those of the CriticalImagesBeacon instance (temp)
    doc,              \* the window and the document: sizes, classes, styles, timers
    fx                \* what the last handler did: beacons, scrollBy calls, redraws

panelVars == <<navSections_, psLayoutMode, navATags, walked, deduped, navPanel_, threw>>

navVars == <<mob, doc, fx>>

(***************************************************************************)
(* Bounds of the input families.                                           *)
(***************************************************************************)
MaxNodes == 4      \* nodes of an exhaustively enumerated section subtree
MaxLinks == 3      \* links of a section given by its links' list depths
ViewportWidth == 2 \* goog.dom.getViewportSize().width; innerWidth is 1..ViewportWidth
MaxTouches == 2    \* fingers on the screen
MaxSiblings == 3   \* children of the parent of a candidate element, the candidate included
MaxIds == 3        \* entries of window.pagespeedNavigationalIds
MaxElements == 3   \* elements below the body that the offset pre-pass visits
MaxScrollY == 2    \* window.scrollY when the page is scrolled to its end
MaxClientY == 2    \* e.touches[0].clientY of a touch on the panel is 0..MaxClientY
MaxPanelScroll == 3 \* navPanel_.scrollHeight - navPanel_.offsetHeight; scrollTop is 0..MaxPanelScroll
MaxImages == 2    \* img and input elements of the page of the critical images beacon
MaxLoads == 2     \* load events the window of the beacon's page gets

(***************************************************************************)
(* Strings.  A string is a sequence of code units.  Markup inside an       *)
(* anchor is a unit of its own: "<img>" an image, "<logo>" an image whose  *)
(* src is the logo's.  A decimal number is a sequence of digits 0..9.      *)
(***************************************************************************)
IsMarkup(c) == c \in {"<img>", "<logo>"}

ToLowerChar(c) == IF c = "S" THEN "s" ELSE IF c = "H" THEN "h" ELSE c

toLowerCase(s) == [i \in 1..Len(s) |-> ToLowerChar(s[i])]

textContent(html) == SelectSeq(html, LAMBDA c : ~IsMarkup(c))

RECURSIVE NumberToString(_)
NumberToString(n) == IF n < 10 THEN <<n>> ELSE NumberToString(n \div 10) \o <<n % 10>>

RECURSIVE ToNumber(_)
ToNumber(s) == IF s = <<>> THEN 0 ELSE 10 * ToNumber(SubSeq(s, 1, Len(s) - 1)) + s[Len(s)]

\* JavaScript's < on two strings: the first differing code unit decides, a
\* proper prefix is smaller.
RECURSIVE StringLess(_, _)
StringLess(s, t) ==
    IF t = <<>> THEN FALSE
    ELSE IF s = <<>> THEN TRUE
    ELSE IF Head(s) # Head(t) THEN Head(s) < Head(t)
    ELSE StringLess(Tail(s), Tail(t))

(***************************************************************************)
(* The page.  A section subtree is held in document (pre-) order: node i   *)
(* has tag[i], parent[i] (0 is the section element itself) and, when it is *)
(* an A element, the anchor link[i].  "LI" stands for any element that is  *)
(* neither a UL nor an A, "#text" for any childless non-link node (text,   *)
(* image).  An anchor holds markup and text only.                          *)
(***************************************************************************)
HashHref == "#"      \* what href = '#' resolves to
NoHref == ""         \* a.href of an anchor without href

Anchor(href, html, title) == [href |-> href, html |-> html, title |-> title]

NoLink == Anchor(NoHref, <<>>, <<>>)

Children(dom, node) ==
    SelectSeq([i \in 1..Len(dom.tag) |-> i], LAMBDA i : dom.parent[i] = node)

(***************************************************************************)
(* labelNavDepth_: the A elements below node, each with the value of its   *)
(* data-mobilize-nav-level attribute (setAttribute stores the string).     *)
(***************************************************************************)
RECURSIVE labelNavDepth_(_, _, _, _)
RECURSIVE labelChildren(_, _, _, _)
NextDepthSkippingInUl(inUl, currDepth) == currDepth + 1

NextDepth(inUl, currDepth) == IF inUl THEN currDepth + 1 ELSE currDepth

labelChildren(dom, children, currDepth, inUl) ==
    IF children = <<>> THEN <<>>
    ELSE LET child == Head(children)
             here ==
                 IF dom.tag[child] = "UL"
                 THEN labelNavDepth_(dom, child, NextDepth(inUl, currDepth), TRUE)
                 ELSE (IF dom.tag[child] = "A"
                       THEN <<[node |-> child, level |-> NumberToString(currDepth),
                               a |-> dom.link[child]]>>
                       ELSE <<>>)
                      \o labelNavDepth_(dom, child, currDepth, inUl)
         IN  here \o labelChildren(dom, Tail(children), currDepth, inUl)

labelNavDepth_(dom, node, currDepth, inUl) ==
    labelChildren(dom, Children(dom, node), currDepth, inUl)

(***************************************************************************)
(* The panel.  A menu (a UL of the panel) is the sequence of its LI items; *)
(* a leaf item holds the clone of a link, a group item holds a DIV with    *)
(* the label anchor and the submenu UL.  src is <<section, link index>> of *)
(* the link the item was made from.  A path is the sequence of child       *)
(* indices leading from navTopUl to a submenu or an item.                  *)
(***************************************************************************)
RECURSIVE SubAt(_, _)
SubAt(menu, path) ==
    IF path = <<>> THEN menu ELSE SubAt(menu[Head(path)].sub, Tail(path))

RECURSIVE AppendAt(_, _, _)
AppendAt(menu, path, item) ==
    IF path = <<>> THEN Append(menu, item)
    ELSE [menu EXCEPT ![Head(path)] =
             [@ EXCEPT !.sub = AppendAt(@, Tail(path), item)]]

Leaf(a, src) == [kind |-> "leaf", a |-> a, sub |-> <<>>, src |-> src]

Group(a, src) ==
    [kind |-> "group",
     a |-> Anchor(HashHref, textContent(a.html), <<>>),
     sub |-> <<>>, src |-> src]

RECURSIVE PopSubmenus(_, _)
PopSubmenus(navSubmenus, popCnt) ==
    IF popCnt > 0 /\ Len(navSubmenus) > 1
    THEN PopSubmenus(SubSeq(navSubmenus, 1, Len(navSubmenus) - 1), popCnt - 1)
    ELSE navSubmenus


\* navLevel1 < navLevel2 on the two attribute values, which are strings
IsNested(navLevel1, navLevel2) == StringLess(navLevel1, navLevel2)

GroupAfterLeaf(tree, top, tags, i, j) ==
    AppendAt(AppendAt(tree, top, Leaf(tags[j].a, <<i, j>>)),
             top, Group(tags[j].a, <<i, j>>))

OpenGroup(tree, top, tags, i, j) == AppendAt(tree, top, Group(tags[j].a, <<i, j>>))

\* One pass of the loop over navATags (j counts from 1): the tree and the
\* stack of open submenus after link j.
WalkStep(i, tags, j, tree, navSubmenus) ==
    LET navLevel1 == tags[j].level
        navLevel2 == IF j = Len(tags) THEN navLevel1 ELSE tags[j + 1].level
        top == navSubmenus[Len(navSubmenus)]
    IN  IF IsNested(navLevel1, navLevel2)
        THEN [tree |-> OpenGroup(tree, top, tags, i, j),
              navSubmenus |-> Append(navSubmenus,
                                     Append(top, Len(SubAt(tree, top)) + 1))]
        ELSE [tree |-> AppendAt(tree, top, Leaf(tags[j].a, <<i, j>>)),
              navSubmenus |-> PopSubmenus(navSubmenus,
                                          ToNumber(navLevel1) - ToNumber(navLevel2))]

\* The loop over navATags of one section, from link j on.
RECURSIVE WalkLinks(_, _, _, _, _)
WalkLinks(i, tags, j, tree, navSubmenus) ==
    IF j > Len(tags) THEN tree
    ELSE LET step == WalkStep(i, tags, j, tree, navSubmenus)
         IN  WalkLinks(i, tags, j + 1, step.tree, step.navSubmenus)

\* navSubmenus as the loop finds it at link j and at every later link, and
\* as it leaves it
RECURSIVE WalkStacks(_, _, _, _, _)
WalkStacks(i, tags, j, tree, navSubmenus) ==
    IF j > Len(tags) THEN <<navSubmenus>>
    ELSE LET step == WalkStep(i, tags, j, tree, navSubmenus)
         IN  <<navSubmenus>>
                 \o WalkStacks(i, tags, j + 1, step.tree, step.navSubmenus)

\* The loop over navSections_ (i counts from 1): skips a section without
\* parent, labels and walks the others.
SectionTags(sections) ==
    [i \in 1..Len(sections) |->
        IF sections[i].attached THEN labelNavDepth_(sections[i], 0, 0, FALSE)
        ELSE <<>>]

RECURSIVE WalkSections(_, _, _)
WalkSections(sections, i, tree) ==
    IF i > Len(sections) THEN tree
    ELSE WalkSections(sections, i + 1,
             IF sections[i].attached
             THEN WalkLinks(i, SectionTags(sections)[i], 1, tree, <<<<>>>>)
             ELSE tree)

\* what the loop leaves on the section elements: data-mobilize-nav-section on
\* the sections it walked (i counts from 0 there), which psLayoutMode then
\* takes out of the page
SectionsAfterWalk(sections, layoutMode) ==
    [i \in 1..Len(sections) |->
        IF sections[i].attached
        THEN [sections[i] EXCEPT !.navSection = <<i - 1>>,
                                 !.attached = ~layoutMode]
        ELSE sections[i]]

(***************************************************************************)
(* dedupNavMenuItems_.  PanelATags is getElementsByTagName('a') on the     *)
(* panel, in document order: of a group item the label anchor (its parent  *)
(* is the DIV), then the anchors of its submenu; of a leaf item the clone  *)
(* (its parent is the LI).  li is the path of the item holding the anchor. *)
(***************************************************************************)
RECURSIVE PanelATags(_, _, _)
PanelATags(menu, prefix, k) ==
    IF k > Len(menu) THEN <<>>
    ELSE <<[li |-> Append(prefix, k), a |-> menu[k].a,
            parentIsLi |-> menu[k].kind = "leaf"]>>
         \o PanelATags(menu[k].sub, Append(prefix, k), 1)
         \o PanelATags(menu, prefix, k + 1)

Contains(seq, x) == \E i \in 1..Len(seq) : seq[i] = x

Range(seq) == {seq[i] : i \in 1..Len(seq)}


\* a scan that queues the list item around every repeated anchor, whatever
\* the anchor's parent is
QueuesEveryRepeat(menuItems, aTag, nodesToDelete) == Append(nodesToDelete, aTag.li)

\* what the scan does with an anchor whose (href, label) was seen before
QueueDuplicate(menuItems, aTag, nodesToDelete) ==
    IF aTag.parentIsLi THEN Append(nodesToDelete, aTag.li) ELSE nodesToDelete


DedupLabel(aTag) == toLowerCase(aTag.a.html)

RECURSIVE DedupScan(_, _, _, _)
DedupScan(aTags, i, menuItems, nodesToDelete) ==
    IF i > Len(aTags) THEN nodesToDelete
    ELSE LET aTag == aTags[i]
             href == aTag.a.href
             label == DedupLabel(aTag)
         IN  IF href \notin DOMAIN menuItems
             THEN DedupScan(aTags, i + 1, (href :> <<label>>) @@ menuItems,
                            nodesToDelete)
             ELSE IF ~Contains(menuItems[href], label)
             THEN DedupScan(aTags, i + 1,
                            [menuItems EXCEPT ![href] = Append(@, label)],
                            nodesToDelete)
             ELSE DedupScan(aTags, i + 1, menuItems,
                            QueueDuplicate(menuItems, aTag, nodesToDelete))

\* node.parentNode.removeChild(node) for every queued item in turn.  An item
\* queued a second time is detached by then: its parentNode is null and the
\* call throws, so the items queued after it stay.
FirstRepeat(nodes) ==
    IF \E k \in 1..Len(nodes) : \E j \in 1..(k - 1) : nodes[j] = nodes[k]
    THEN CHOOSE k \in 1..Len(nodes) :
             /\ \E j \in 1..(k - 1) : nodes[j] = nodes[k]
             /\ \A m \in 1..(k - 1) : \A j \in 1..(m - 1) : nodes[j] # nodes[m]
    ELSE 0

RECURSIVE WithoutItems(_, _, _, _)
WithoutItems(menu, prefix, k, gone) ==
    IF k > Len(menu) THEN <<>>
    ELSE (IF Append(prefix, k) \in gone THEN <<>>
          ELSE <<[menu[k] EXCEPT
                     !.sub = WithoutItems(@, Append(prefix, k), 1, gone)]>>)
         \o WithoutItems(menu, prefix, k + 1, gone)

RemoveNodes(tree, nodesToDelete) ==
    LET r == FirstRepeat(nodesToDelete)
        gone == IF r = 0 THEN Range(nodesToDelete)
                ELSE {nodesToDelete[j] : j \in 1..(r - 1)}
    IN  [tree |-> WithoutItems(tree, <<>>, 1, gone), threw |-> r # 0]

dedupNavMenuItems_(tree) ==
    RemoveNodes(tree, DedupScan(PanelATags(tree, <<>>, 1), 1, <<>>, <<>>)).tree

(***************************************************************************)
(* cleanupNavPanel_.  Of the attributes it strips and the image heights it *)
(* clamps the model keeps nothing; it keeps the text an anchor gets from   *)
(* its title, and the removal of the list items that hold an anchor        *)
(* without href or an image with the logo's src.                           *)
(***************************************************************************)
TitleAsText(a) ==
    IF textContent(a.html) = <<>> /\ a.title # <<>>
    THEN [a EXCEPT !.html = a.html \o a.title]
    ELSE a

RECURSIVE WithTitles(_)
WithTitles(menu) ==
    [k \in 1..Len(menu) |->
        [menu[k] EXCEPT !.a = TitleAsText(@), !.sub = WithTitles(@)]]

\* the nodes cleanup queues for one item: the anchor without href, then every
\* image of the anchor whose src is the logo's; each stands for its LI
CleanupQueueOf(item, path) ==
    IF item.kind # "leaf" THEN <<>>
    ELSE (IF item.a.href = NoHref THEN <<path>> ELSE <<>>)
         \o [n \in 1..Len(SelectSeq(item.a.html, LAMBDA c : c = "<logo>")) |-> path]

RECURSIVE CleanupScan(_, _, _)
CleanupScan(menu, prefix, k) ==
    IF k > Len(menu) THEN <<>>
    ELSE CleanupQueueOf(menu[k], Append(prefix, k))
         \o CleanupScan(menu[k].sub, Append(prefix, k), 1)
         \o CleanupScan(menu, prefix, k + 1)

cleanupNavPanel_(tree) ==
    LET titled == WithTitles(tree)
    IN  RemoveNodes(titled, CleanupScan(titled, <<>>, 1))

(***************************************************************************)
(* The section subtrees the panel construction is checked on.              *)
(***************************************************************************)
Hrefs == <<"/a", "/b", "/c", "/d", "/e", "/f">>

PlainLink(k) == Anchor(Hrefs[((k - 1) % Len(Hrefs)) + 1], <<"H">>, <<>>)

RECURSIVE IsAncestorOrSelf(_, _, _)
IsAncestorOrSelf(parent, q, k) ==
    q = k \/ (k # 0 /\ IsAncestorOrSelf(parent, q, parent[k]))

\* the parent vectors of the ordered trees with n nodes below the root,
\* numbered in document order
PreOrders(n) ==
    {parent \in [1..n -> 0..(n - 1)] :
        \A i \in 1..n :
            /\ parent[i] < i
            /\ i > 1 => IsAncestorOrSelf(parent, parent[i], i - 1)}

TreeTags == {"UL", "LI", "A", "#text"}

\* the tags a tree of the given shape can carry: an A or a text node has no
\* child
TagsOf(parent) ==
    {t \in [DOMAIN parent -> TreeTags] :
        \A i \in DOMAIN parent :
            t[i] \in {"A", "#text"} => \A k \in DOMAIN parent : parent[k] # i}

Dom(tag, parent, link) ==
    [tag |-> tag, parent |-> parent, link |-> link, attached |-> TRUE,
     navSection |-> <<>>]

\* every subtree of at most maxNodes nodes
TreeDoms(maxNodes) ==
    UNION {UNION {{Dom(tag, parent,
                       [i \in DOMAIN tag |->
                           IF tag[i] = "A" THEN PlainLink(i) ELSE NoLink]) :
                    tag \in TagsOf(parent)} :
                  parent \in PreOrders(n)} :
           n \in 0..maxNodes}

\* the subtree in which link k lies in links[k].depth + 1 nested ULs of its
\* own, so that labelNavDepth_ gives it the depth links[k].depth
RECURSIVE ChainDom(_)
ChainDom(links) ==
    IF links = <<>> THEN Dom(<<>>, <<>>, <<>>)
    ELSE LET rest == ChainDom(SubSeq(links, 1, Len(links) - 1))
             last == links[Len(links)]
             off == Len(rest.tag)
             m == last.depth + 2
         IN  Dom(rest.tag \o [k \in 1..m |-> IF k < m THEN "UL" ELSE "A"],
                 rest.parent \o [k \in 1..m |-> IF k = 1 THEN 0 ELSE off + k - 1],
                 rest.link \o [k \in 1..m |-> IF k < m THEN NoLink ELSE last.a])

SeqsUpTo(S, n) == UNION {[1..k -> S] : k \in 1..n}

DepthVals == {0, 1, 2, 10}

\* sections given by the list depths of their links, depths up to 10
DepthDoms(maxLinks) ==
    {ChainDom([k \in DOMAIN ds |-> [depth |-> ds[k], a |-> PlainLink(k)]]) :
        ds \in SeqsUpTo(DepthVals, maxLinks)}

DedupAnchors ==
    {Anchor("/a", <<"S">>, <<>>),
     Anchor("/a", <<"s">>, <<>>),
     Anchor("/a", <<>>, <<"S">>),
     Anchor(HashHref, <<"s">>, <<>>),
     Anchor(NoHref, <<"s">>, <<>>),
     Anchor("/a", <<"<logo>", "s">>, <<>>),
     Anchor(NoHref, <<"<logo>", "h">>, <<>>)}

\* sections whose links repeat hrefs and labels, all in one list or all but
\* the first in a nested list
DedupDoms(maxLinks) ==
    {ChainDom([k \in DOMAIN as |-> [depth |-> IF k = 1 THEN 0 ELSE d, a |-> as[k]]]) :
        as \in SeqsUpTo(DedupAnchors, maxLinks), d \in {0, 1}}

\* <ul><li><a>Home</a></li><li><ul><li><a>Sub</a></li></ul></li></ul>
ScenarioDom(home, sub) ==
    Dom(<<"UL", "LI", "A", "LI", "UL", "LI", "A">>,
        <<0, 1, 2, 1, 4, 5, 6>>,
        <<NoLink, NoLink, home, NoLink, NoLink, NoLink, sub>>)

Home(href) == Anchor(href, <<"H">>, <<>>)

Sub(href) == Anchor(href, <<"S">>, <<>>)

ScenarioDoms ==
    {ScenarioDom(Home("/a"), Sub("/b")), ScenarioDom(Home(NoHref), Sub(NoHref))}

\* pages with two sections, one possibly without parent
SmallDoms ==
    {ChainDom(ls) :
        ls \in SeqsUpTo([depth : {0, 1},
                         a : {Anchor("/a", <<"S">>, <<>>), Anchor("/a", <<"s">>, <<>>),
                              Anchor(HashHref, <<"s">>, <<>>)}], 1)}
    \cup {ChainDom(<<[depth |-> 0, a |-> Anchor(HashHref, <<"S">>, <<>>)],
                     [depth |-> 1, a |-> Anchor("/b", <<"H">>, <<>>)]>>)}

Detached(dom) == [dom EXCEPT !.attached = FALSE]

\* two deep sections: links at the list depths 0 1 10 2, and links at the
\* depths 0 1 2 ... 10, each one list deeper than the one before
DeepDoms ==
    {ChainDom([k \in 1..4 |-> [depth |-> <<0, 1, 10, 2>>[k], a |-> PlainLink(k)]]),
     ChainDom([k \in 1..11 |-> [depth |-> k - 1, a |-> PlainLink(k)]])}

SectionLists(maxNodes, maxLinks) ==
    {<<d>> : d \in TreeDoms(maxNodes) \cup DepthDoms(maxLinks)
                    \cup DedupDoms(maxLinks) \cup ScenarioDoms \cup DeepDoms}
    \cup {<<d, e>> : d \in SmallDoms \cup {Detached(x) : x \in SmallDoms},
                     e \in SmallDoms}

(***************************************************************************)
(* The window and the document.  A CSS length is a record: unit "px" with  *)
(* its number, "auto" for a value that is no pixel length, "" for a        *)
(* property that is not set.                                               *)
(***************************************************************************)
HeaderOffsetHeight == 5    \* headerBar_.offsetHeight, the height before the transform
NavPanelOffsetWidth == 4   \* the width of the nav panel before the transform
ViewportHeight == 8        \* window.innerHeight at scale 1

Px(n) == [unit |-> "px", n |-> n]

Auto == [unit |-> "auto", n |-> 0]

Unset == [unit |-> "", n |-> 0]

\* MobUtil.pixelValue: the number of a pixel length, null (<<>>) otherwise
pixelValue(v) == IF v.unit = "px" THEN <<v.n>> ELSE <<>>

\* Math.round(n / d) for n >= 0, d > 0
Round(n, d) == (2 * n + d) \div (2 * d)

\* Math.round(goog.style.getTransformedSize(headerBar_).height) when the bar
\* is scaled by w / ViewportWidth
TransformedHeight(w) == Round(HeaderOffsetHeight * w, ViewportWidth)

\* window.getComputedStyle(el).getPropertyValue('top'): the inline style wins
ComputedTop(el) == IF el.top.unit # "" THEN el.top ELSE el.cssTop

Toggle(classes, name) ==
    IF name \in classes THEN classes \ {name} ELSE classes \cup {name}

State == [mob |-> mob, doc |-> doc, fx |-> fx]

\* a handler starts: nothing sent, scrolled or redrawn yet; fx.click names
\* the handler when it is Run, a click listener, the timer's callback
\* ("timer"), the orientation-change or the load listener, and is "" for a
\* scroll, a touch and a change of the page; fx.streak counts the menu
\* clicks in a row (up to 2), fx.was keeps the open state the handler found,
\* fx.measured the height the last redrawHeader_ measured and fx.runs how
\* often it has run (up to 2), fx.move the touchmove event a dispatch on the
\* panel ended with, fx.steps the redraws, the registration of the
\* scan for the elements to offset, the registration of the window's
\* listeners and the construction of the panel in their order
Handler(name, s) ==
    [s EXCEPT !.fx = [click |-> IF name \in {"Run", "menuclick", "detectorclick",
                                              "mapclick", "timer",
                                              "orientationchange", "load",
                                              "navclick"}
                                THEN name ELSE "",
                      sent |-> <<>>, scrollBy |-> <<>>, cleared |-> <<>>,
                      redraws |-> <<>>, steps |-> <<>>, found |-> <<>>,
                      move |-> <<>>, threw |-> FALSE,
                      measured |-> s.fx.measured, runs |-> s.fx.runs,
                      streak |-> IF name = "menuclick" /\ s.fx.streak < 2
                                 THEN s.fx.streak + 1
                                 ELSE IF name = "menuclick" THEN 2 ELSE 0,
                      was |-> [open |-> "open" \in s.doc.class.navPanel,
                               flag |-> s.mob.isNavPanelOpen_]]]

sendBeacon(s, event) == [s EXCEPT !.fx.sent = Append(@, event)]

(***************************************************************************)
(* redrawHeader_                                                           *)
(***************************************************************************)
ScrollsAlways(called, newHeight, oldHeight) == newHeight # oldHeight

ScrollsOnEquality(called, newHeight, oldHeight) == called

\* line 549: the scroll position is compensated
Compensates(called, newHeight, oldHeight) == called /\ newHeight # oldHeight

OffsetByNewHeight(el, called, newHeight, oldHeight) ==
    IF el.position # "static" /\ pixelValue(ComputedTop(el)) # <<>>
    THEN [el EXCEPT !.top = Px(ComputedTop(el).n + newHeight)]
    ELSE el

ShiftsByDeltaOnly(el, called, newHeight, oldHeight) ==
    IF /\ el.position # "static"
       /\ pixelValue(ComputedTop(el)) # <<>>
       /\ pixelValue(el.top) # <<>>
    THEN [el EXCEPT !.top = Px(@.n + (newHeight - oldHeight))]
    ELSE el

\* lines 524-540: one element of elementsToOffset_
OffsetElement(el, called, newHeight, oldHeight) ==
    IF el.position # "static" /\ pixelValue(ComputedTop(el)) # <<>>
    THEN IF called
         THEN LET oldTop == pixelValue(el.top)
              IN  IF oldTop # <<>>
                  THEN [el EXCEPT !.top = Px(oldTop[1] + (newHeight - oldHeight))]
                  ELSE el
         ELSE [el EXCEPT !.top = Px(el.rectTop + newHeight)]
    ELSE el

redrawHeader_(s) ==
    IF ~s.mob.headerBar_ THEN s
    ELSE LET oldHeight == IF s.mob.headerBarHeight_ = -1
                          THEN TransformedHeight(s.doc.headerScale)
                          ELSE s.mob.headerBarHeight_
             newHeight == TransformedHeight(s.doc.innerWidth)
             called == s.mob.redrawNavCalled_
             scrolls == Compensates(called, newHeight, oldHeight)
         IN  [mob |-> [s.mob EXCEPT !.headerBarHeight_ = newHeight,
                                    !.redrawNavCalled_ = TRUE],
              doc |-> [s.doc EXCEPT
                         !.headerScale = s.doc.innerWidth,
                         !.class.headerBar = @ \ {"hide"},
                         !.spacerHeight = newHeight,
                         !.el = [e \in DOMAIN @ |->
                                   IF e \in s.mob.elementsToOffset_
                                   THEN OffsetElement(@[e], called, newHeight, oldHeight)
                                   ELSE @[e]]],
              fx |-> [s.fx EXCEPT
                         !.redraws = Append(@, "redrawHeader_"),
                         !.steps = Append(@, "redrawHeader_"),
                         !.scrollBy = IF scrolls
                                      THEN Append(@, newHeight - oldHeight)
                                      ELSE @,
                         !.measured = newHeight,
                         !.runs = IF @ < 2 THEN @ + 1 ELSE 2]]

(***************************************************************************)
(* redrawNavPanel_.  A length that need not be whole is a pair <<n, d>>    *)
(* for n / d.  window.innerHeight shrinks with the zoom as innerWidth      *)
(* does.  left is kept relative to window.scrollX, which is not part of    *)
(* the state; top is window.scrollY (doc.scrollY), which SpecScroll and    *)
(* SpecSettle change and the other specifications leave at 0.              *)
(***************************************************************************)
\* getBoundingClientRect().height of the header bar as it is scaled now
HeaderBoxHeight(d) == <<HeaderOffsetHeight * d.headerScale, ViewportWidth>>

AlwaysOffCanvas(d, isOperaMini) ==
    [scale |-> <<d.innerWidth, ViewportWidth>>,
     top |-> d.scrollY,
     left |-> <<-(NavPanelOffsetWidth * d.innerWidth), ViewportWidth>>,
     marginTop |-> HeaderBoxHeight(d),
     height |-> IF isOperaMini
                THEN d.navPanelStyle.height
                ELSE <<ViewportHeight * d.innerWidth
                           - HeaderOffsetHeight * d.headerScale,
                       d.innerWidth>>]

\* lines 569-593
NavPanelStyle(d, isOperaMini) ==
    [scale |-> <<d.innerWidth, ViewportWidth>>,
     top |-> d.scrollY,
     left |-> IF "open" \in d.class.navPanel
              THEN <<0, 1>>
              ELSE <<-(NavPanelOffsetWidth * d.innerWidth), ViewportWidth>>,
     marginTop |-> HeaderBoxHeight(d),
     height |-> IF isOperaMini
                THEN d.navPanelStyle.height
                ELSE <<ViewportHeight * d.innerWidth
                           - HeaderOffsetHeight * d.headerScale,
                       d.innerWidth>>]

redrawNavPanel_(s) ==
    IF ~s.mob.navPanel_ THEN s
    ELSE [s EXCEPT !.fx.redraws = Append(@, "redrawNavPanel_"),
                   !.fx.steps = Append(@, "redrawNavPanel_"),
                   !.doc.navPanelStyle = NavPanelStyle(s.doc, s.mob.isOperaMini_)]

(***************************************************************************)
(* toggleNavPanel_ and the handlers of addHeaderBarResizeEvents_           *)
(***************************************************************************)
ToggleHeaderOnly(s) ==
    [s EXCEPT !.doc.class.headerBar = Toggle(@, "open")]

\* lines 1209-1213
ToggleOpen(s) ==
    [s EXCEPT !.doc.class.headerBar = Toggle(@, "open"),
              !.doc.class.navPanel = Toggle(@, "open"),
              !.doc.class.clickDetector = Toggle(@, "open"),
              !.doc.class.body = Toggle(@, "noscroll"),
              !.mob.isNavPanelOpen_ = ~@]

OpenNavPanel(s) ==
    redrawNavPanel_(
        [sendBeacon(s, "MENU_BUTTON_OPEN") EXCEPT
            !.doc.class.headerBar = @ \cup {"open"},
            !.doc.class.navPanel = @ \cup {"open"},
            !.doc.class.clickDetector = @ \cup {"open"},
            !.doc.class.body = @ \cup {"noscroll"},
            !.mob.isNavPanelOpen_ = TRUE])

toggleNavPanel_(s) ==
    redrawNavPanel_(ToggleOpen(sendBeacon(s,
        IF "open" \in s.doc.class.navPanel
        THEN "MENU_BUTTON_CLOSE" ELSE "MENU_BUTTON_OPEN")))

ToggleWheneverClicked(s) == toggleNavPanel_(s)

\* lines 1042-1046: the click listener of the click detector div
ClickDetectorListener(s) ==
    IF "open" \in s.doc.class.navPanel THEN toggleNavPanel_(s) ELSE s

\* window.setTimeout returns an id no pending timer has
NewTimer(timers) == CHOOSE id \in 1..(Cardinality(timers) + 1) : id \notin timers

ArmsWithoutCancelling(s) ==
    LET id == NewTimer(s.doc.timers)
    IN  [s EXCEPT !.doc.timers = @ \cup {id}, !.mob.scrollTimer_ = id]

\* lines 610-631; scrollTimer_ = 0 stands for null, fx.cleared holds the
\* ids given to window.clearTimeout
resetScrollTimer(s) ==
    LET pending == s.mob.scrollTimer_ # 0
        cleared == IF pending
                   THEN s.doc.timers \ {s.mob.scrollTimer_}
                   ELSE s.doc.timers
        id == NewTimer(cleared)
    IN  [s EXCEPT !.doc.timers = cleared \cup {id},
                  !.mob.scrollTimer_ = id,
                  !.fx.cleared = IF pending THEN Append(@, s.mob.scrollTimer_)
                                 ELSE @]

RedrawsWithTouches(s) ==
    [redrawHeader_(redrawNavPanel_(s)) EXCEPT !.mob.scrollTimer_ = 0]

\* lines 615-630: the callback of the timer
ScrollTimerCallback(s) ==
    LET drawn == IF s.mob.isAndroidBrowser_ \/ s.mob.currentTouches_ = 0
                 THEN redrawHeader_(redrawNavPanel_(s))
                 ELSE s
    IN  [drawn EXCEPT !.mob.scrollTimer_ = 0]

RedrawsWhileScrolling(s) ==
    redrawHeader_(redrawNavPanel_(resetScrollTimer(s)))

\* lines 636-648
scrollHandler(s) ==
    resetScrollTimer(IF ~s.mob.isNavPanelOpen_
                     THEN [s EXCEPT !.doc.class.headerBar = @ \cup {"hide"}]
                     ELSE s)

\* lines 656-659
TouchStartListener(s, touches, clientY) ==
    [s EXCEPT !.mob.currentTouches_ = touches, !.mob.lastScrollY_ = clientY]

\* lines 662-678
TouchMoveListener(s) ==
    IF ~s.mob.isNavPanelOpen_ /\ ~s.mob.isAndroidBrowser_
    THEN [s EXCEPT !.doc.class.headerBar = @ \cup {"hide"}]
    ELSE s

CountsTouchesOnly(s, touches) == [s EXCEPT !.mob.currentTouches_ = touches]

\* lines 681-688
TouchEndListener(s, touches) ==
    LET t == [s EXCEPT !.mob.currentTouches_ = touches]
    IN  IF touches = 0 THEN resetScrollTimer(t) ELSE t

\* lines 670-677: the window's listener calls e.preventDefault() while the
\* panel is open; the call cancels a cancelable event only
WindowPreventsMove(s, e) == s.mob.isNavPanelOpen_ /\ e.cancelable

PastTopOnly(scrollUp, navPanelAtTop, navPanelAtBottom) ==
    scrollUp /\ navPanelAtTop

\* lines 1183-1184
PastBoundary(scrollUp, navPanelAtTop, navPanelAtBottom) ==
    (scrollUp /\ navPanelAtTop) \/ (~scrollUp /\ navPanelAtBottom)

\* lines 1162-1194: the panel's own touchmove listener for the event e
\* (touches is e.touches.length, clientY is e.touches[0].clientY, canStop
\* says whether e has stopImmediatePropagation) with the panel scrolled to
\* scrollTop; it returns whether it cancelled the event and whether the
\* event still reaches the window's listener
PanelTouchMoveListener(s, e, scrollTop) ==
    IF ~s.mob.isNavPanelOpen_
    THEN [s |-> s, prevented |-> FALSE, propagates |-> TRUE]
    ELSE IF e.touches # 1
    THEN [s |-> s, prevented |-> e.cancelable, propagates |-> TRUE]
    ELSE LET scrollUp == e.clientY > s.mob.lastScrollY_
             navPanelAtTop == scrollTop = 0
             navPanelAtBottom == scrollTop >= MaxPanelScroll - 1
         IN  [s |-> [s EXCEPT !.mob.lastScrollY_ = e.clientY],
              prevented |-> e.cancelable
                              /\ PastBoundary(scrollUp, navPanelAtTop,
                                              navPanelAtBottom),
              propagates |-> ~e.canStop]

ClosesTheOtherGroups(s, div) ==
    [s EXCEPT !.doc.group.open = IF div \in @ THEN {} ELSE {div},
              !.doc.group.icon = IF div \in @ THEN {} ELSE {div}]

\* lines 1238-1249: the click listener of the label DIV of a group; div is
\* the path of the group's item, doc.group.open the submenu ULs and
\* doc.group.icon the expand icons that carry the class 'open'
NavButtonListener(s, div) ==
    [s EXCEPT !.doc.group.open = Toggle(@, div),
              !.doc.group.icon = Toggle(@, div)]

\* lines 694-697
OrientationChangeListener(s) == redrawHeader_(redrawNavPanel_(s))

(***************************************************************************)
(* The document that discovery reads.  A document is a record: node[n] is  *)
(* the node n, parent[n] its parentNode (0 for none), order the nodes in   *)
(* the order of their insertion, which is the order among siblings.  Node  *)
(* 1 is document.body.  An id, a tag and the data of a text node are       *)
(* strings; visible stands for offsetParent !== null.                      *)
(***************************************************************************)
NAV_PANEL == "psmob-nav-panel"

Node(kind, tag, id, data, visible) ==
    [kind |-> kind, tag |-> tag, id |-> id, data |-> data, visible |-> visible]

Div(id, visible) == Node("element", "DIV", id, "", visible)

Text(data) == Node("text", "", "", data, FALSE)

childNodes(d, n) == SelectSeq(d.order, LAMBDA c : d.parent[c] = n)

RECURSIVE PreOrder(_, _)
RECURSIVE PreOrderOfAll(_, _, _)
PreOrderOfAll(d, nodes, k) ==
    IF k > Len(nodes) THEN <<>>
    ELSE PreOrder(d, nodes[k]) \o PreOrderOfAll(d, nodes, k + 1)

\* n and its descendants in document order
PreOrder(d, n) == <<n>> \o PreOrderOfAll(d, childNodes(d, n), 1)

\* element.getElementsByTagName(tag): the descendants with that tag
getElementsByTagName(d, n, tag) ==
    SelectSeq(Tail(PreOrder(d, n)), LAMBDA c : d.node[c].tag = tag)

FirstWithId(d, id) ==
    LET hits == SelectSeq(PreOrder(d, 1),
                          LAMBDA c : d.node[c].kind = "element" /\ d.node[c].id = id)
    IN  IF id = "" \/ hits = <<>> THEN 0 ELSE hits[1]

\* document.getElementById(id): the first element of the document with the
\* id, 0 for null
getElementById(d, id) == FirstWithId(d, id)

\* document.querySelector('[id=' + MobUtil.toCssString1(id) + ']'): the
\* first element whose id attribute is id; an element without the attribute
\* has the id ""
querySelectorById(d, id) == FirstWithId(d, id)

AppendWithoutRemoving(d, parent, n) ==
    [d EXCEPT !.order = Append(@, n), !.parent[n] = parent]

\* parent.appendChild(n): n leaves its place and becomes the last child
appendChild(d, parent, n) ==
    [d EXCEPT !.order = Append(SelectSeq(@, LAMBDA c : c # n), n),
              !.parent[n] = parent]

\* node.textContent: the data of the text nodes below, in document order
RECURSIVE JoinData(_, _, _)
JoinData(d, nodes, k) ==
    IF k > Len(nodes) THEN ""
    ELSE (IF d.node[nodes[k]].kind = "text" THEN d.node[nodes[k]].data ELSE "")
         \o JoinData(d, nodes, k + 1)

TextContentOf(d, n) ==
    IF d.node[n].kind = "element" THEN JoinData(d, PreOrder(d, n), 1)
    ELSE d.node[n].data

IsSpace(c) == c \in {" ", "\n", "\t"}

RECURSIVE TrimLeft(_)
TrimLeft(s) ==
    IF s = "" THEN ""
    ELSE IF IsSpace(SubSeq(s, 1, 1)) THEN TrimLeft(SubSeq(s, 2, Len(s))) ELSE s

RECURSIVE TrimRight(_)
TrimRight(s) ==
    IF s = "" THEN ""
    ELSE IF IsSpace(SubSeq(s, Len(s), Len(s)))
         THEN TrimRight(SubSeq(s, 1, Len(s) - 1)) ELSE s

\* goog.string.trim
trim(s) == TrimRight(TrimLeft(s))

(***************************************************************************)
(* hasImages_ and canEnlargeNav_                                           *)
(***************************************************************************)
\* lines 247-268
hasImages_(d, visibilityMatters, n) ==
    IF d.node[n].kind # "element" THEN FALSE
    ELSE IF d.node[n].tag = "IMG"
         THEN ~visibilityMatters \/ d.node[n].visible
         ELSE LET images == getElementsByTagName(d, n, "IMG")
              IN  IF visibilityMatters
                  THEN \E i \in 1..Len(images) : d.node[images[i]].visible
                  ELSE Len(images) > 0

ScriptAmongChildren(d, parent) ==
    \E i \in 1..Len(childNodes(d, parent)) :
        d.node[childNodes(d, parent)[i]].tag = "SCRIPT"

\* line 283: parent.getElementsByTagName('SCRIPT').length > 0
HasScript(d, parent) == Len(getElementsByTagName(d, parent, "SCRIPT")) > 0

SkipsEveryInvisible(d, child, elementIsVisible) ==
    ~d.node[child].visible /\ elementIsVisible

\* line 293: child.offsetParent === null && elementIsVisible; only an element
\* has an offsetParent, that of another node is undefined
SkipsInvisible(d, child, elementIsVisible) ==
    d.node[child].kind = "element" /\ ~d.node[child].visible /\ elementIsVisible

TextBudget == 60

CountsEachTextAlone(preElementTextSize, textSize) == textSize > TextBudget

\* lines 311-312: preElementTextSize += textSize, then the comparison
OverBudget(preElementTextSize, textSize) ==
    preElementTextSize + textSize > TextBudget

\* lines 290-318: the loop over the children of the parent, from the k-th on
RECURSIVE EnlargeScan(_, _, _, _, _, _)
EnlargeScan(d, element, children, k, sawElement, preElementTextSize) ==
    IF k > Len(children) THEN TRUE
    ELSE LET child == children[k]
             elementIsVisible == d.node[element].visible
             textSize == Len(trim(TextContentOf(d, child)))
         IN  IF child = element
             THEN EnlargeScan(d, element, children, k + 1, TRUE, preElementTextSize)
             ELSE IF SkipsInvisible(d, child, elementIsVisible)
             THEN EnlargeScan(d, element, children, k + 1, sawElement,
                              preElementTextSize)
             ELSE IF d.node[child].kind \notin {"text", "element"}
             THEN EnlargeScan(d, element, children, k + 1, sawElement,
                              preElementTextSize)
             ELSE IF hasImages_(d, elementIsVisible, child) THEN FALSE
             ELSE IF textSize > 0
             THEN IF sawElement THEN FALSE
                  ELSE IF OverBudget(preElementTextSize, textSize) THEN FALSE
                  ELSE EnlargeScan(d, element, children, k + 1, sawElement,
                                   preElementTextSize + textSize)
             ELSE EnlargeScan(d, element, children, k + 1, sawElement,
                              preElementTextSize)

\* lines 278-320
canEnlargeNav_(d, element) ==
    LET parent == d.parent[element]
    IN  IF parent = 0 THEN FALSE
        ELSE IF HasScript(d, parent) THEN FALSE
        ELSE EnlargeScan(d, element, childNodes(d, parent), 1, FALSE, 0)

(***************************************************************************)
(* findNavSections_.  The loop over window.pagespeedNavigationalIds keeps  *)
(* st: the document, the elements pushed, the parents object, whether it   *)
(* threw, and found, one record per id it looked at.                       *)
(***************************************************************************)
IsDigit(c) == c \in {"0", "1", "2", "3", "4", "5", "6", "7", "8", "9"}

\* the number of digits id ends with
RECURSIVE TrailingDigits(_)
TrailingDigits(id) ==
    IF id # "" /\ IsDigit(SubSeq(id, Len(id), Len(id)))
    THEN 1 + TrailingDigits(SubSeq(id, 1, Len(id) - 1))
    ELSE 0

PageSpeedPrefix == "PageSpeed-"

\* line 359: element.id.match(/^PageSpeed-.*-[0-9]+$/)
IsPageSpeedId(id) ==
    LET digits == TrailingDigits(id)
        dash == Len(id) - digits
    IN  /\ digits > 0
        /\ dash > Len(PageSpeedPrefix)
        /\ SubSeq(id, dash, dash) = "-"
        /\ SubSeq(id, 1, Len(PageSpeedPrefix)) = PageSpeedPrefix

\* lines 359-365: the id a parent without id gets from its element
ParentIdFor(elementId) ==
    IF IsPageSpeedId(elementId)
    THEN SubSeq(elementId, 1, Len(elementId) - TrailingDigits(elementId) - 1)
    ELSE PageSpeedPrefix \o elementId \o "-P"

\* the properties every object inherits from Object.prototype
ObjectPrototype ==
    {"constructor", "hasOwnProperty", "isPrototypeOf", "propertyIsEnumerable",
     "toLocaleString", "toString", "valueOf", "__proto__", "__defineGetter__",
     "__defineSetter__", "__lookupGetter__", "__lookupSetter__"}

OwnKey(key, parents) == key \in DOMAIN parents

\* line 367: parent.id in parents, for parents = {} and the keys added since
InParents(key, parents) == key \in DOMAIN parents \/ key \in ObjectPrototype

\* line 371: parents[parent.id] as a condition; an inherited property is a
\* function or an object
ParentEnlarged(key, parents) ==
    IF key \in DOMAIN parents THEN parents[key] ELSE TRUE

NoParents == [key \in {} |-> FALSE]

IgnoresUnresolved(st, id) ==
    [st EXCEPT !.found = Append(@, [id |-> id, element |-> 0, parent |-> 0,
                                    parentId |-> "", synthesized |-> FALSE,
                                    evaluated |-> FALSE, enlarged |-> FALSE,
                                    pushed |-> 0])]

\* line 349: element is null and element.parentNode throws a TypeError
Unresolved(st, id) == [IgnoresUnresolved(st, id) EXCEPT !.threw = TRUE]

PushesChildAgain(st, id, element) ==
    LET parent == st.dom.parent[element]
        enlarge == canEnlargeNav_(st.dom, element)
    IN  [st EXCEPT
           !.elements = Append(@, IF enlarge THEN parent ELSE element),
           !.found = Append(@, [id |-> id, element |-> element,
                                parent |-> parent,
                                parentId |-> st.dom.node[parent].id,
                                synthesized |-> FALSE, evaluated |-> TRUE,
                                enlarged |-> enlarge,
                                pushed |-> IF enlarge THEN parent ELSE element])]

\* lines 349-379: the element of one id
AddSection(st, id, element) ==
    LET parent == st.dom.parent[element]
        synthesized == parent # 0 /\ st.dom.node[parent].id = ""
        dom == IF synthesized
               THEN [st.dom EXCEPT !.node[parent].id =
                                       ParentIdFor(st.dom.node[element].id)]
               ELSE st.dom
        parentId == IF parent # 0 THEN dom.node[parent].id ELSE ""
        seen == parent # 0 /\ InParents(parentId, st.parents)
        evaluated == parent # 0 /\ ~seen
        enlarge == evaluated /\ canEnlargeNav_(dom, element)
        pushed == IF parent = 0 THEN element
                  ELSE IF evaluated THEN (IF enlarge THEN parent ELSE element)
                  ELSE IF ~ParentEnlarged(parentId, st.parents) THEN element
                  ELSE 0
    IN  [dom |-> dom,
         elements |-> IF pushed # 0 THEN Append(st.elements, pushed)
                      ELSE st.elements,
         parents |-> IF evaluated THEN (parentId :> enlarge) @@ st.parents
                     ELSE st.parents,
         threw |-> FALSE,
         found |-> Append(st.found,
                          [id |-> id, element |-> element, parent |-> parent,
                           parentId |-> parentId, synthesized |-> synthesized,
                           evaluated |-> evaluated, enlarged |-> enlarge,
                           pushed |-> pushed])]

\* lines 340-348
FindOne(st, id) ==
    LET byId == getElementById(st.dom, id)
        element == IF byId # 0 THEN byId ELSE querySelectorById(st.dom, id)
    IN  IF element = 0 THEN Unresolved(st, id) ELSE AddSection(st, id, element)

\* lines 339-380: the loop from the i-th id on
RECURSIVE FindLoop(_, _, _)
FindLoop(ids, i, st) ==
    IF i > Len(ids) \/ st.threw THEN st
    ELSE FindLoop(ids, i + 1, FindOne(st, ids[i]))

FindsPanelAndList(s) ==
    LET panel == getElementById(s.doc.dom, NAV_PANEL)
        st == FindLoop(s.doc.navigationalIds, 1,
                       [dom |-> s.doc.dom, elements |-> <<>>,
                        parents |-> NoParents, threw |-> FALSE, found |-> <<>>])
    IN  [s EXCEPT !.mob.navPanel_ = panel # 0,
                  !.mob.navSections_ = st.elements,
                  !.doc.dom = IF panel # 0 THEN appendChild(st.dom, 1, panel)
                              ELSE st.dom,
                  !.fx.found = st.found,
                  !.fx.threw = st.threw]

\* lines 328-383; when the loop throws, line 382 is not reached
findNavSections_(s) ==
    LET panel == getElementById(s.doc.dom, NAV_PANEL)
        st == FindLoop(s.doc.navigationalIds, 1,
                       [dom |-> s.doc.dom, elements |-> <<>>,
                        parents |-> NoParents, threw |-> FALSE, found |-> <<>>])
    IN  IF panel # 0
        THEN [s EXCEPT !.mob.navPanel_ = TRUE,
                       !.mob.navSections_ = <<>>,
                       !.doc.dom = appendChild(@, 1, panel)]
        ELSE IF st.threw
        THEN [s EXCEPT !.mob.navPanel_ = FALSE,
                       !.doc.dom = st.dom,
                       !.fx.found = st.found,
                       !.fx.threw = TRUE]
        ELSE [s EXCEPT !.mob.navPanel_ = FALSE,
                       !.mob.navSections_ = st.elements,
                       !.doc.dom = st.dom,
                       !.fx.found = st.found]

(***************************************************************************)
(* Documents for discovery.  A document grows from the body by pieces: a   *)
(* node with the nodes right below it.                                     *)
(***************************************************************************)
Body == [node |-> <<Div("", TRUE)>>, parent |-> <<0>>, order |-> <<1>>]

AddNode(d, parent, node) ==
    [node |-> Append(d.node, node), parent |-> Append(d.parent, parent),
     order |-> Append(d.order, Len(d.node) + 1)]

RECURSIVE AddNodes(_, _, _, _)
AddNodes(d, parent, nodes, k) ==
    IF k > Len(nodes) THEN d
    ELSE AddNodes(AddNode(d, parent, nodes[k]), parent, nodes, k + 1)

Piece(top, inner) == [top |-> top, inner |-> inner]

AddPiece(d, parent, piece) ==
    LET with == AddNode(d, parent, piece.top)
    IN  AddNodes(with, Len(with.node), piece.inner, 1)

RECURSIVE AddPieces(_, _, _, _)
AddPieces(d, parent, pieces, k) ==
    IF k > Len(pieces) THEN d
    ELSE AddPieces(AddPiece(d, parent, pieces[k]), parent, pieces, k + 1)

Script == Node("element", "SCRIPT", "", "", FALSE)

Img(visible) == Node("element", "IMG", "", "", visible)

Comment == Node("comment", "", "", "", FALSE)

\* a text longer than the budget of canEnlargeNav_
LongText == "0123456789012345678901234567890123456789012345678901234567890"

\* the candidate element of a sibling family
Candidate(visible, inner) == Piece(Div("nav", visible), inner)

Candidates ==
    {Candidate(v, inner) : v \in BOOLEAN, inner \in {<<>>, <<Script>>}}

\* what may stand next to the candidate under its parent
Siblings ==
    {Piece(Text(" \n"), <<>>),
     Piece(Text(" Menu "), <<>>),
     Piece(Text(LongText), <<>>),
     Piece(Comment, <<>>),
     Piece(Div("", FALSE), <<Text("x")>>),
     Piece(Div("", TRUE), <<Text("x")>>),
     Piece(Div("", TRUE), <<Script>>),
     Piece(Script, <<>>),
     Piece(Img(TRUE), <<>>),
     Piece(Div("", TRUE), <<Img(FALSE)>>)}

\* the body, one parent without id, and below it the candidate among up to
\* maxSiblings - 1 siblings
SiblingPages(maxSiblings) ==
    UNION {{[dom |-> AddPieces(AddNode(Body, 1, Div("", TRUE)), 2,
                               before \o <<c>> \o after, 1),
             navigationalIds |-> <<"nav">>] :
               c \in Candidates,
               after \in {a \in SeqsUpTo(Siblings, maxSiblings - 1) \cup {<<>>} :
                             Len(before) + Len(a) < maxSiblings}} :
           before \in SeqsUpTo(Siblings, maxSiblings - 1) \cup {<<>>}}

IdListIds == {"PageSpeed-x-1", "PageSpeed-x-2", "nav", "gone"}

\* two or three parents: the first, without id, holds PageSpeed-x-1 and, when
\* together, PageSpeed-x-2, which else has a parent without id of its own;
\* the last, with the id menuId, holds nav; tail1 and tail2 are what follows
\* the elements in the first and in the last parent
IdListDom(together, menuId, tail1, tail2) ==
    LET first == AddNode(AddNode(Body, 1, Div("", TRUE)), 2,
                         Div("PageSpeed-x-1", TRUE))
        second == IF together
                  THEN AddNodes(AddNode(first, 2, Div("PageSpeed-x-2", TRUE)),
                                2, tail1, 1)
                  ELSE LET own == AddNode(AddNodes(first, 2, tail1, 1), 1,
                                          Div("", TRUE))
                       IN  AddNode(own, Len(own.node), Div("PageSpeed-x-2", TRUE))
        last == AddNode(second, 1, Div(menuId, TRUE))
    IN  AddNodes(AddNode(last, Len(last.node), Div("nav", TRUE)),
                 Len(last.node), tail2, 1)

Tails == {<<>>, <<Text("more")>>}

IdListPages(maxIds) ==
    {[dom |-> IdListDom(together, menuId, tail1, tail2),
      navigationalIds |-> ids] :
        together \in BOOLEAN, menuId \in {"", "menu", "valueOf"},
        tail1 \in Tails, tail2 \in Tails,
        ids \in SeqsUpTo(IdListIds, maxIds)}

\* the panel the server sent, as a child of the body before or after the
\* main element, or inside the main element next to nav
PanelDoms ==
    LET main == AddPiece(Body, 1, Piece(Div("main", TRUE), <<Div("nav", TRUE)>>))
    IN  {AddNode(main, 1, Div(NAV_PANEL, TRUE)),
         AddNode(main, 2, Div(NAV_PANEL, TRUE)),
         AddPiece(AddNode(Body, 1, Div(NAV_PANEL, TRUE)), 1,
                  Piece(Div("main", TRUE), <<Div("nav", TRUE)>>))}

PanelPages ==
    {[dom |-> d, navigationalIds |-> ids] :
        d \in PanelDoms, ids \in {<<>>, <<"nav">>, <<"gone">>}}

\* texts of half the budget of canEnlargeNav_ and of one character more
HalfText == "012345678901234567890123456789"

HalfTextAndOne == "0123456789012345678901234567890"

\* siblings whose texts add up to the budget, or pass it only together
BudgetSiblings ==
    {Piece(Text(HalfText), <<>>),
     Piece(Text(" " \o HalfTextAndOne \o "\n"), <<>>),
     Piece(Div("", TRUE), <<Text(HalfText)>>),
     Piece(Div("", FALSE), <<Text(HalfTextAndOne)>>)}

\* the candidate as the last child of a parent without id
BudgetPages(maxSiblings) ==
    {[dom |-> AddPieces(AddNode(Body, 1, Div("", TRUE)), 2,
                        before \o <<Candidate(v, <<>>)>>, 1),
      navigationalIds |-> <<"nav">>] :
        v \in BOOLEAN, before \in SeqsUpTo(BudgetSiblings, maxSiblings - 1)}

FindPages(maxSiblings, maxIds) ==
    SiblingPages(maxSiblings) \cup IdListPages(maxIds) \cup PanelPages
        \cup BudgetPages(maxSiblings)

(***************************************************************************)
(* The page of the coordinator: the elements under document.body that      *)
(* findElementsToOffset_ visits, the sections discovery ends with, and     *)
(* the panel the server may have sent.                                     *)
(***************************************************************************)
Element(parent, position, cssTop) ==
    [parent |-> parent, position |-> position, cssTop |-> cssTop,
     top |-> Unset, rectTop |-> IF cssTop.unit = "px" THEN cssTop.n ELSE 0,
     className |-> "", id |-> ""]

PageElements ==
    [body   |-> Element("", "static", Auto),
     banner |-> Element("body", "fixed", Px(0)),
     main   |-> Element("body", "relative", Px(1)),
     popup  |-> Element("main", "absolute", Px(2)),
     para   |-> Element("main", "static", Auto)]

ElementOrder == <<"body", "banner", "main", "popup", "para">>

ChildElements(els, element) ==
    SelectSeq(ElementOrder, LAMBDA e : els[e].parent = element)

PROGRESS_SCRIM == "psmob-progress-scrim"

\* goog.string.startsWith
startsWith(str, prefix) ==
    Len(str) >= Len(prefix) /\ SubSeq(str, 1, Len(prefix)) = prefix

\* lines 401-403: an element of the overlay is not looked at, nor what is
\* below it
InOverlay(el) ==
    \/ el.className = PROGRESS_SCRIM
    \/ startsWith(el.className, "psmob-")
    \/ startsWith(el.id, "psmob-")

KeepsAllowedPositions(fixedPositionOnly, position) == fixedPositionOnly

\* lines 406-413: below an element that is not static only fixed elements
\* are taken
FixedOnlyBelow(fixedPositionOnly, position) ==
    fixedPositionOnly \/ position # "static"

\* lines 399-420
RECURSIVE findElementsToOffsetHelper_(_, _, _)
RECURSIVE OffsetsOfChildren(_, _, _, _)
OffsetsOfChildren(els, children, k, fixedPositionOnly) ==
    IF k > Len(children) THEN {}
    ELSE findElementsToOffsetHelper_(els, children[k], fixedPositionOnly)
         \cup OffsetsOfChildren(els, children, k + 1, fixedPositionOnly)

findElementsToOffsetHelper_(els, element, fixedPositionOnly) ==
    LET position == els[element].position
        top == pixelValue(ComputedTop(els[element]))
        add == /\ position # "static"
               /\ top # <<>>
               /\ (position = "fixed" \/ (~fixedPositionOnly /\ position = "absolute"))
    IN  IF InOverlay(els[element]) THEN {}
        ELSE (IF add THEN {element} ELSE {})
             \cup OffsetsOfChildren(els, ChildElements(els, element), 1,
                                    FixedOnlyBelow(fixedPositionOnly, position))

FindsNoBody(s) ==
    [s EXCEPT !.fx.steps = Append(@, "findElementsToOffset_")]

\* lines 430-435
findElementsToOffset_(s) ==
    [s EXCEPT !.mob.elementsToOffset_ =
                  @ \cup findElementsToOffsetHelper_(s.doc.el, "body", FALSE),
              !.fx.steps = Append(@, "findElementsToOffset_")]

\* the menu the server sends as #psmob-nav-panel: a group with one link
ServerPanel == WalkSections(<<ScenarioDom(Home("/a"), Sub("/b"))>>, 1, <<>>)

\* a section whose cleanup queues one item twice
BrokenSection == ChainDom(<<[depth |-> 0, a |-> Anchor(NoHref, <<"<logo>">>, <<>>)]>>)

\* a document whose id list names nav, the only child of a parent without id
ListDom == AddPiece(Body, 1, Piece(Div("", TRUE), <<Div("nav", TRUE)>>))

\* a document with the server's panel inside the main element
ServerDom ==
    AddNode(AddPiece(Body, 1, Piece(Div("main", TRUE), <<Div("nav", TRUE)>>)),
            2, Div(NAV_PANEL, TRUE))

\* the subtree of the links below each node of ListDom: nav holds them all
SectionsOf(subtree) == <<<<>>, subtree, subtree>>

\* sections[n] is the subtree of the links below the node n of dom
Page(deviceType, dom, navigationalIds, sections, userAgent) ==
    [deviceType |-> deviceType, dom |-> dom,
     navigationalIds |-> navigationalIds,
     sections |-> sections, userAgent |-> userAgent, psMapLocation |-> FALSE]

\* the page has window.psMapLocation
WithMap(page) == [page EXCEPT !.psMapLocation = TRUE]

Pages ==
    {WithMap(Page("desktop", ListDom, <<"nav">>,
                  SectionsOf(ScenarioDom(Home("/a"), Sub("/b"))), "Chrome")),
     Page("mobile", ServerDom, <<>>, <<>>, "Android"),
     Page("mobile", ServerDom, <<>>, <<>>, "Opera Mini"),
     Page("mobile", ListDom, <<"nav">>,
          SectionsOf(ScenarioDom(Home("/a"), Sub("/b"))), "Chrome"),
     Page("desktop", Body, <<>>, <<>>, "Chrome"),
     Page("desktop", ListDom, <<"nav">>, SectionsOf(BrokenSection), "Chrome"),
     Page("desktop", ListDom, <<"gone", "nav">>,
          SectionsOf(ScenarioDom(Home("/a"), Sub("/b"))), "Chrome")}

\* lines 45-184: the fields the constructor sets
NewMob(userAgent) ==
    [navSections_ |-> <<>>,
     headerBar_ |-> FALSE, navPanel_ |-> FALSE, clickDetectorDiv_ |-> FALSE,
     menuButton_ |-> FALSE, scrollTimer_ |-> 0, currentTouches_ |-> 0,
     lastScrollY_ |-> 0, isNavPanelOpen_ |-> FALSE, headerBarHeight_ |-> -1,
     elementsToOffset_ |-> {}, redrawNavCalled_ |-> FALSE,
     isAndroidBrowser_ |-> userAgent = "Android",
     isOperaMini_ |-> userAgent = "Opera Mini"]

NewDoc(p, innerWidth) ==
    [deviceType |-> p.deviceType, dom |-> p.dom,
     navigationalIds |-> p.navigationalIds, sections |-> p.sections,
     psMapLocation |-> p.psMapLocation,
     class |-> [headerBar |-> {}, spacer |-> {}, navPanel |-> {},
                clickDetector |-> {}, body |-> {}],
     headerScale |-> ViewportWidth, spacerHeight |-> 0, el |-> PageElements,
     innerWidth |-> innerWidth, touches |-> 0, timers |-> {},
     scrollY |-> 0, scrollQueued |-> FALSE,
     group |-> [open |-> {}, icon |-> {}],
     listeners |-> {}, loaded |-> FALSE,
     navPanelStyle |-> [scale |-> <<1, 1>>, top |-> 0, left |-> <<0, 1>>,
                        marginTop |-> <<0, 1>>, height |-> <<0, 0>>]]

NoFx ==
    [click |-> "", sent |-> <<>>, scrollBy |-> <<>>, cleared |-> <<>>,
     redraws |-> <<>>, steps |-> <<>>,
     found |-> <<>>, move |-> <<>>, threw |-> FALSE, measured |-> -1, runs |-> 0, streak |-> 0,
     was |-> [open |-> FALSE, flag |-> FALSE]]

(***************************************************************************)
(* Run and what it calls.                                                  *)
(***************************************************************************)
\* the subtrees of the elements of this.navSections_
FoundSections(s) ==
    [i \in 1..Len(s.mob.navSections_) |-> s.doc.sections[s.mob.navSections_[i]]]

ListensBeforeDrawing(s) ==
    redrawNavPanel_(redrawHeader_(
        [s EXCEPT !.doc.listeners =
                      @ \cup {"scroll", "touchstart", "touchmove", "touchend",
                              "orientationchange"},
                  !.fx.steps = Append(@, "addEventListener")]))

\* lines 602-698
addHeaderBarResizeEvents_(s) ==
    LET drawn == redrawNavPanel_(redrawHeader_(s))
    IN  [drawn EXCEPT !.doc.listeners =
                          @ \cup {"scroll", "touchstart", "touchmove", "touchend",
                                  "orientationchange"},
                      !.fx.steps = Append(@, "addEventListener")]

\* lines 820-835: the map button and its click listener
addMapNavigation_(s) == [s EXCEPT !.doc.listeners = @ \cup {"mapclick"}]

\* lines 828-832: the click listener of the map button
MapButtonListener(s) == sendBeacon(s, "MAP_BUTTON")

\* lines 709-752; goog.dom.classlist.add(null, 'mobile') throws
addHeaderBar_(s) ==
    LET bar == [s EXCEPT !.mob.headerBar_ = TRUE, !.mob.menuButton_ = TRUE]
        mobile == s.doc.deviceType \in {"mobile", "tablet"}
        map(t) == IF t.doc.psMapLocation THEN addMapNavigation_(t) ELSE t
    IN  IF mobile
        THEN IF bar.mob.navPanel_
             THEN addHeaderBarResizeEvents_(map(
                      [bar EXCEPT !.doc.class.headerBar = @ \cup {"mobile"},
                                  !.doc.class.spacer = @ \cup {"mobile"},
                                  !.doc.class.navPanel = @ \cup {"mobile"}]))
             ELSE [bar EXCEPT !.doc.class.headerBar = @ \cup {"mobile"},
                              !.doc.class.spacer = @ \cup {"mobile"},
                              !.fx.threw = TRUE]
        ELSE addHeaderBarResizeEvents_(map(bar))

\* lines 1148-1196; constructThrows: constructNavPanel_ ended by a TypeError
addNavPanel_(s, constructThrows) ==
    LET made == IF s.mob.navPanel_ THEN s
                ELSE [s EXCEPT !.mob.navPanel_ = TRUE,
                               !.fx.steps = Append(@, "constructNavPanel_")]
    IN  IF constructThrows THEN [made EXCEPT !.fx.threw = TRUE]
        ELSE redrawNavPanel_(
                 [made EXCEPT !.mob.clickDetectorDiv_ = TRUE,
                              !.doc.listeners =
                                  @ \cup {"detectorclick", "paneltouchmove"}])

\* lines 1291-1298
RunEnd(s, withPanel) ==
    LET buttons == IF withPanel
                   THEN [s EXCEPT !.doc.listeners = @ \cup {"menuclick", "navclick"}]
                   ELSE s
    IN  [sendBeacon(buttons, "NAV_DONE") EXCEPT !.doc.listeners = @ \cup {"load"}]

(***************************************************************************)
(* Panel construction as a state machine: the state before addNavPanel_    *)
(* calls constructNavPanel_, and the call.                                 *)
(***************************************************************************)
vars == <<pc, panelVars, navVars>>

InitPanel ==
    /\ pc = "construct"
    /\ navSections_ \in SectionLists(MaxNodes, MaxLinks)
    /\ psLayoutMode \in BOOLEAN
    /\ navATags = <<>>
    /\ walked = <<>>
    /\ deduped = <<>>
    /\ navPanel_ = <<>>
    /\ threw = FALSE
    /\ mob = NewMob("Chrome")
    /\ doc = NewDoc(Page("desktop", Body, <<>>, <<>>, "Chrome"), ViewportWidth)
    /\ fx = NoFx

constructNavPanel_ ==
    /\ pc = "construct"
    /\ LET tree == WalkSections(navSections_, 1, <<>>)
           clean == cleanupNavPanel_(dedupNavMenuItems_(tree))
       IN  /\ navATags' = SectionTags(navSections_)
           /\ walked' = tree
           /\ deduped' = dedupNavMenuItems_(tree)
           /\ navPanel_' = clean.tree
           /\ threw' = clean.threw
    /\ navSections_' = SectionsAfterWalk(navSections_, psLayoutMode)
    /\ pc' = "built"
    /\ UNCHANGED <<psLayoutMode, navVars>>

NextPanel == constructNavPanel_

SpecPanel == InitPanel /\ [][NextPanel]_vars

(***************************************************************************)
(* The coordinator as a state machine: the instance after its constructor, *)
(* Run, and then the events of the host, one handler at a time.            *)
(***************************************************************************)
Init ==
    /\ pc = "new"
    /\ navSections_ = <<>>
    /\ psLayoutMode = FALSE
    /\ navATags = <<>>
    /\ walked = <<>>
    /\ deduped = <<>>
    /\ navPanel_ = <<>>
    /\ threw = FALSE
    /\ \E p \in Pages, w \in 1..ViewportWidth :
           /\ mob = NewMob(p.userAgent)
           /\ doc = NewDoc(p, w)
    /\ fx = NoFx

Becomes(s) == mob' = s.mob /\ doc' = s.doc /\ fx' = s.fx

\* lines 1277-1299
Run ==
    /\ pc = "new"
    /\ \E s0 \in {findNavSections_(Handler("Run", State))} :
       LET s1 == IF s0.fx.threw THEN s0 ELSE findElementsToOffset_(s0)
           found == FoundSections(s1)
           s2 == IF s0.fx.threw THEN s0 ELSE addHeaderBar_(s1)
           wanted == ~s2.fx.threw /\ (s2.mob.navPanel_ \/ found # <<>>)
           construct == wanted /\ ~s2.mob.navPanel_
           tree == WalkSections(found, 1, <<>>)
           clean == cleanupNavPanel_(dedupNavMenuItems_(tree))
           s3 == IF wanted THEN addNavPanel_(s2, construct /\ clean.threw) ELSE s2
           s4 == IF s3.fx.threw THEN s3 ELSE RunEnd(s3, wanted)
       IN  /\ Becomes(s4)
           /\ navSections_' = IF construct
                              THEN SectionsAfterWalk(found, psLayoutMode)
                              ELSE found
           /\ navATags' = IF construct THEN SectionTags(found) ELSE <<>>
           /\ walked' = IF construct THEN tree ELSE <<>>
           /\ deduped' = IF construct THEN dedupNavMenuItems_(tree) ELSE <<>>
           /\ navPanel_' = IF construct THEN clean.tree
                           ELSE IF s0.mob.navPanel_ THEN ServerPanel ELSE <<>>
           /\ threw' = s4.fx.threw
    /\ pc' = "ran"
    /\ UNCHANGED psLayoutMode

Listens(event) == pc = "ran" /\ event \in doc.listeners

\* e.touches[0].clientY of a touch event: the listeners store it in
\* lastScrollY_, and nothing in this module is decided by it
ClientYs == {0}

\* the click listener of the menu button (lines 1224-1226)
MenuButtonClick ==
    /\ Listens("menuclick")
    /\ Becomes(toggleNavPanel_(Handler("menuclick", State)))
    /\ UNCHANGED <<pc, panelVars>>

MapButtonClick ==
    /\ Listens("mapclick")
    /\ Becomes(MapButtonListener(Handler("mapclick", State)))
    /\ UNCHANGED <<pc, panelVars>>

ClickDetectorClick ==
    /\ Listens("detectorclick")
    /\ Becomes(ClickDetectorListener(Handler("detectorclick", State)))
    /\ UNCHANGED <<pc, panelVars>>

\* the window has been scrolled, by the user or by scrollBy
Scroll ==
    /\ Listens("scroll")
    /\ Becomes(scrollHandler(Handler("scroll", State)))
    /\ UNCHANGED <<pc, panelVars>>

TouchStart ==
    /\ Listens("touchstart")
    /\ doc.touches < MaxTouches
    /\ \E clientY \in ClientYs :
           Becomes(TouchStartListener(
               [Handler("touchstart", State) EXCEPT !.doc.touches = @ + 1],
               doc.touches + 1, clientY))
    /\ UNCHANGED <<pc, panelVars>>

\* a finger moves, on the panel or elsewhere; the panel's listener runs first
TouchMove ==
    /\ Listens("touchmove")
    /\ doc.touches > 0
    /\ \/ Becomes(TouchMoveListener(Handler("touchmove", State)))
       \/ /\ "paneltouchmove" \in doc.listeners
          /\ \E clientY \in ClientYs, canStop \in BOOLEAN :
                 LET p == PanelTouchMoveListener(
                              Handler("touchmove", State),
                              [touches |-> doc.touches, clientY |-> clientY,
                               cancelable |-> TRUE, canStop |-> canStop], 0)
                 IN  Becomes(IF p.propagates THEN TouchMoveListener(p.s) ELSE p.s)
    /\ UNCHANGED <<pc, panelVars>>

\* a finger leaves; the stock Android browser may not fire touchend
TouchEnd ==
    /\ Listens("touchend")
    /\ doc.touches > 0
    /\ \E fired \in {TRUE, ~mob.isAndroidBrowser_} :
           LET s == [Handler("touchend", State) EXCEPT !.doc.touches = @ - 1]
           IN  Becomes(IF fired THEN TouchEndListener(s, doc.touches - 1) ELSE s)
    /\ UNCHANGED <<pc, panelVars>>

\* the timer of resetScrollTimer expires
ScrollTimer ==
    /\ pc = "ran"
    /\ \E id \in doc.timers :
           Becomes(ScrollTimerCallback(
               [Handler("timer", State) EXCEPT !.doc.timers = @ \ {id}]))
    /\ UNCHANGED <<pc, panelVars>>

OrientationChange ==
    /\ Listens("orientationchange")
    /\ \E w \in 1..ViewportWidth :
           Becomes(OrientationChangeListener(
               [Handler("orientationchange", State) EXCEPT !.doc.innerWidth = w]))
    /\ UNCHANGED <<pc, panelVars>>

\* the window's load event: redrawHeader_ is the listener (lines 1297-1298)
Load ==
    /\ Listens("load")
    /\ ~doc.loaded
    /\ Becomes(redrawHeader_(
           [Handler("load", State) EXCEPT !.doc.loaded = TRUE]))
    /\ UNCHANGED <<pc, panelVars>>

\* the user zooms: innerWidth changes, no listener of the overlay runs
Zoom ==
    /\ pc = "ran"
    /\ \E w \in (1..ViewportWidth) \ {doc.innerWidth} :
           Becomes([Handler("zoom", State) EXCEPT !.doc.innerWidth = w])
    /\ UNCHANGED <<pc, panelVars>>

\* the page restyles one of its elements: a style rule makes it static, or a
\* script of the page clears its inline top
PageRestyle ==
    /\ pc = "ran"
    /\ \E e \in mob.elementsToOffset_ :
           /\ doc.el[e].position # "static"
           /\ doc.el[e].top # Unset
           /\ \/ Becomes([Handler("restyle", State) EXCEPT
                              !.doc.el[e].position = "static"])
              \/ Becomes([Handler("restyle", State) EXCEPT
                              !.doc.el[e].top = Unset])
    /\ UNCHANGED <<pc, panelVars>>

Next ==
    \/ Run
    \/ MenuButtonClick
    \/ MapButtonClick
    \/ ClickDetectorClick
    \/ Scroll
    \/ TouchStart
    \/ TouchMove
    \/ TouchEnd
    \/ ScrollTimer
    \/ OrientationChange
    \/ Load
    \/ Zoom
    \/ PageRestyle

Spec == Init /\ [][Next]_vars

(***************************************************************************)
(* Discovery as a state machine: a page before Run, and findNavSections_   *)
(* called on it, once and again.  pc counts the calls: "find", "found",    *)
(* "refound".                                                              *)
(***************************************************************************)
InitFind ==
    /\ pc = "find"
    /\ navSections_ = <<>>
    /\ psLayoutMode = FALSE
    /\ navATags = <<>>
    /\ walked = <<>>
    /\ deduped = <<>>
    /\ navPanel_ = <<>>
    /\ threw = FALSE
    /\ mob = NewMob("Chrome")
    /\ \E p \in FindPages(MaxSiblings, MaxIds) :
           doc = NewDoc(Page("desktop", p.dom, p.navigationalIds, <<>>, "Chrome"),
                        ViewportWidth)
    /\ fx = NoFx

FindNavSections ==
    /\ pc \in {"find", "found", "refound"}
    /\ Becomes(findNavSections_(Handler("find", State)))
    /\ pc' = IF pc = "find" THEN "found" ELSE "refound"
    /\ UNCHANGED panelVars

NextFind == FindNavSections

SpecFind == InitFind /\ [][NextFind]_vars

(***************************************************************************)
(* The pre-pass over the page as a state machine: a page before Run, and   *)
(* findElementsToOffset_ called on it.                                     *)
(***************************************************************************)
Style(position, cssTop, className, id) ==
    [position |-> position, cssTop |-> cssTop, className |-> className, id |-> id]

\* what an element of the page may be: of the page, with or without a pixel
\* top, or of the overlay
Styles ==
    {Style("static", Auto, "", ""),
     Style("fixed", Px(1), "", ""),
     Style("fixed", Auto, "", ""),
     Style("absolute", Px(1), "menu psmob-x", ""),
     Style("relative", Px(1), "", "main"),
     Style("fixed", Px(1), "psmob-header-bar", ""),
     Style("static", Auto, "", "psmob-spacer"),
     Style("fixed", Px(1), PROGRESS_SCRIM, "")}

Styled(parent, style) ==
    [Element(parent, style.position, style.cssTop) EXCEPT
        !.className = style.className, !.id = style.id]

\* the pages with maxElements elements below the body: each element is a
\* child of the body or of an element before it; the other names are of
\* elements that are not in the document
OffsetPages(maxElements) ==
    LET n == IF maxElements < Len(ElementOrder) THEN maxElements + 1
             ELSE Len(ElementOrder)
    IN  {[e \in {ElementOrder[k] : k \in 1..Len(ElementOrder)} |->
             LET k == CHOOSE i \in 1..Len(ElementOrder) : ElementOrder[i] = e
             IN  IF k = 1 THEN Styled("", Style(bodyPosition, Auto, "", ""))
                 ELSE IF k <= n THEN Styled(ElementOrder[parents[k]], styles[k])
                 ELSE Styled("none", Style("static", Auto, "", ""))] :
            bodyPosition \in {"static", "relative"},
            parents \in {p \in [2..n -> 1..n] : \A k \in 2..n : p[k] < k},
            styles \in [2..n -> Styles]}

InitOffsets ==
    /\ pc = "scan"
    /\ navSections_ = <<>>
    /\ psLayoutMode = FALSE
    /\ navATags = <<>>
    /\ walked = <<>>
    /\ deduped = <<>>
    /\ navPanel_ = <<>>
    /\ threw = FALSE
    /\ mob = NewMob("Chrome")
    /\ \E els \in OffsetPages(MaxElements) :
           doc = [NewDoc(Page("desktop", Body, <<>>, <<>>, "Chrome"), ViewportWidth)
                     EXCEPT !.el = els]
    /\ fx = NoFx

FindElementsToOffset ==
    /\ pc = "scan"
    /\ Becomes(findElementsToOffset_(Handler("scan", State)))
    /\ pc' = "scanned"
    /\ UNCHANGED panelVars

NextOffsets == FindElementsToOffset

SpecOffsets == InitOffsets /\ [][NextOffsets]_vars

(***************************************************************************)
(* The coordinator when the user lets go: Run, one last gesture of the     *)
(* user, and then only what the overlay itself sets off.  pc is "new",     *)
(* "ran", "still" once the gesture is over, and "scrolled" once the scroll *)
(* event of a window.scrollBy has been delivered.  doc.scrollQueued holds  *)
(* while a scroll event of window.scrollBy waits for its delivery; Spec    *)
(* lets a scroll event come at any time and does not queue it.             *)
(***************************************************************************)
\* the fingers that touch: touchstart (lines 655-659), and touchmove (lines
\* 661-678) when they move
Touch(s, touches, moved) ==
    IF touches = 0 THEN s
    ELSE LET t == TouchStartListener([s EXCEPT !.doc.touches = touches],
                                     touches, 0)
         IN  IF moved THEN TouchMoveListener(t) ELSE t

\* the fingers that leave: touchend (lines 680-688), which the stock Android
\* browser may not fire
Release(s, left, fired) ==
    IF left = s.doc.touches THEN s
    ELSE LET t == [s EXCEPT !.doc.touches = left]
         IN  IF fired THEN TouchEndListener(t, left) ELSE t

\* window.scrollBy (line 550) scrolls the window as far as the page goes,
\* and a window that has moved queues a scroll event
QueueScroll(s) ==
    IF s.fx.scrollBy = <<>> THEN s
    ELSE LET to == s.doc.scrollY + s.fx.scrollBy[1]
             y == IF to < 0 THEN 0 ELSE IF to > MaxScrollY THEN MaxScrollY ELSE to
         IN  IF y = s.doc.scrollY THEN s
             ELSE [s EXCEPT !.doc.scrollY = y, !.doc.scrollQueued = TRUE]

Settling == pc \in {"still", "scrolled"}

\* the user's last gesture: the menu button may be clicked first; then
\* fingers touch and may move, the pinch changes innerWidth, the window may
\* scroll, and fingers leave
Gesture ==
    /\ Listens("scroll")
    /\ \E click \in {c \in BOOLEAN : c => "menuclick" \in doc.listeners},
          touches \in 0..MaxTouches, moved \in BOOLEAN,
          w \in 1..ViewportWidth, y \in 0..MaxScrollY :
          \E left \in 0..touches, fired \in {TRUE, ~mob.isAndroidBrowser_} :
              \E s0 \in {Handler("gesture", State)} :
              \E s1 \in {IF click THEN toggleNavPanel_(s0) ELSE s0} :
              \E s2 \in {Touch(s1, touches, moved)} :
              \E s3 \in {[s2 EXCEPT !.doc.innerWidth = w]} :
              \E s4 \in {IF y # s3.doc.scrollY
                          THEN scrollHandler([s3 EXCEPT !.doc.scrollY = y])
                          ELSE s3} :
                  Becomes(Release(s4, left, fired))
    /\ pc' = "still"
    /\ UNCHANGED panelVars

\* the timer of resetScrollTimer expires
SettleTimer ==
    /\ Settling
    /\ \E id \in doc.timers :
           Becomes(QueueScroll(ScrollTimerCallback(
               [Handler("timer", State) EXCEPT !.doc.timers = @ \ {id}])))
    /\ UNCHANGED <<pc, panelVars>>

\* the scroll event of window.scrollBy is delivered
SettleScroll ==
    /\ Settling
    /\ doc.scrollQueued
    /\ Becomes(scrollHandler(
           [Handler("scroll", State) EXCEPT !.doc.scrollQueued = FALSE]))
    /\ pc' = "scrolled"
    /\ UNCHANGED panelVars

\* the window's load event (lines 1297-1298)
SettleLoad ==
    /\ Settling
    /\ "load" \in doc.listeners
    /\ ~doc.loaded
    /\ Becomes(QueueScroll(redrawHeader_(
           [Handler("load", State) EXCEPT !.doc.loaded = TRUE])))
    /\ UNCHANGED <<pc, panelVars>>

NextSettle ==
    \/ Run
    \/ Gesture
    \/ SettleTimer
    \/ SettleScroll
    \/ SettleLoad

\* a timer that is armed expires, and a queued event is delivered
SpecSettle ==
    /\ Init
    /\ [][NextSettle]_vars
    /\ WF_vars(SettleTimer)
    /\ WF_vars(SettleScroll)

(***************************************************************************)
(* The coordinator with the window's scroll position: Run, and then the    *)
(* clicks, the scrolls and the zooms of a user who does not touch.         *)
(***************************************************************************)
\* the user scrolls the window to y
UserScroll ==
    /\ Listens("scroll")
    /\ \E y \in (0..MaxScrollY) \ {doc.scrollY} :
           Becomes(scrollHandler(
               [Handler("scroll", State) EXCEPT !.doc.scrollY = y,
                                                !.doc.scrollQueued = FALSE]))
    /\ UNCHANGED <<pc, panelVars>>

\* the scroll event of window.scrollBy is delivered
QueuedScroll ==
    /\ Listens("scroll")
    /\ doc.scrollQueued
    /\ Becomes(scrollHandler(
           [Handler("scroll", State) EXCEPT !.doc.scrollQueued = FALSE]))
    /\ UNCHANGED <<pc, panelVars>>

\* the timer of resetScrollTimer expires
Expiry ==
    /\ pc = "ran"
    /\ \E id \in doc.timers :
           Becomes(QueueScroll(ScrollTimerCallback(
               [Handler("timer", State) EXCEPT !.doc.timers = @ \ {id}])))
    /\ UNCHANGED <<pc, panelVars>>

\* the device is turned: innerWidth may change, and the listener redraws
Turn ==
    /\ Listens("orientationchange")
    /\ \E w \in 1..ViewportWidth :
           Becomes(QueueScroll(OrientationChangeListener(
               [Handler("orientationchange", State) EXCEPT !.doc.innerWidth = w])))
    /\ UNCHANGED <<pc, panelVars>>

NextScroll ==
    \/ Run
    \/ MenuButtonClick
    \/ ClickDetectorClick
    \/ Zoom
    \/ UserScroll
    \/ QueuedScroll
    \/ Expiry
    \/ Turn

SpecScroll == Init /\ [][NextScroll]_vars

(***************************************************************************)
(* The coordinator under the touches of a user on the nav panel: Run, the  *)
(* menu button, and fingers that land on the panel, move and leave.        *)
(***************************************************************************)
\* a finger lands on the panel at clientY: the event reaches the window's
\* touchstart listener
PanelTouchStart ==
    /\ Listens("touchstart")
    /\ doc.touches < MaxTouches
    /\ \E clientY \in 0..MaxClientY :
           Becomes(TouchStartListener(
               [Handler("touchstart", State) EXCEPT !.doc.touches = @ + 1],
               doc.touches + 1, clientY))
    /\ UNCHANGED <<pc, panelVars>>

\* a finger moves on the panel: the panel's listener runs, then the
\* window's unless the panel's stopped the event
PanelTouchMove ==
    /\ Listens("touchmove")
    /\ "paneltouchmove" \in doc.listeners
    /\ doc.touches > 0
    /\ \E clientY \in 0..MaxClientY, cancelable \in BOOLEAN, canStop \in BOOLEAN,
          scrollTop \in 0..MaxPanelScroll :
           LET e == [touches |-> doc.touches, clientY |-> clientY,
                     cancelable |-> cancelable, canStop |-> canStop]
               p == PanelTouchMoveListener(Handler("touchmove", State), e,
                                           scrollTop)
               after == IF p.propagates THEN TouchMoveListener(p.s) ELSE p.s
           IN  Becomes([after EXCEPT !.fx.move =
                   <<[event |-> e, scrollTop |-> scrollTop,
                      byPanel |-> p.prevented,
                      prevented |-> p.prevented
                          \/ (p.propagates /\ WindowPreventsMove(p.s, e))]>>])
    /\ UNCHANGED <<pc, panelVars>>

NextTouch ==
    \/ Run
    \/ MenuButtonClick
    \/ PanelTouchStart
    \/ PanelTouchMove
    \/ TouchEnd

\* a window at scale 1: no handler of this specification looks at the width
InitTouch == Init /\ doc.innerWidth = ViewportWidth

SpecTouch == InitTouch /\ [][NextTouch]_vars

(***************************************************************************)
(* What the claims speak of.                                               *)
(***************************************************************************)
\* the items of a menu tree in document order, each with its path and the
\* number of groups it lies in
RECURSIVE FlatItems(_, _, _)
FlatItems(menu, prefix, k) ==
    IF k > Len(menu) THEN <<>>
    ELSE <<[kind |-> menu[k].kind, a |-> menu[k].a, src |-> menu[k].src,
            path |-> Append(prefix, k), groups |-> Len(prefix)]>>
         \o FlatItems(menu[k].sub, Append(prefix, k), 1)
         \o FlatItems(menu, prefix, k + 1)

ItemsOf(tree) == FlatItems(tree, <<>>, 1)

LeavesOf(tree) == SelectSeq(ItemsOf(tree), LAMBDA it : it.kind = "leaf")

DedupKey(a) == <<a.href, toLowerCase(a.html)>>

IndexOfSrc(items, src) == CHOOSE k \in 1..Len(items) : items[k].src = src

Built == pc = "built"

\* C1 (as claimed): when constructNavPanel_ has finished, no two leaves of the
\* panel have the same (href, lower-cased label); a leaf that is kept is the
\* first leaf of the walk with its key, so every later one was removed.
C1_NoTwoLeavesShareKey ==
    (Built /\ ~threw) =>
        LET final == LeavesOf(navPanel_)
            before == LeavesOf(walked)
        IN  /\ \A x, y \in 1..Len(final) :
                   x # y => DedupKey(final[x].a) # DedupKey(final[y].a)
            /\ \A x \in 1..Len(final) :
                   \A y \in 1..(IndexOfSrc(before, final[x].src) - 1) :
                       DedupKey(before[y].a)
                           # DedupKey(before[IndexOfSrc(before, final[x].src)].a)

\* the list-nesting depth of a node: the ULs among its proper ancestors
\* inside the section, the outermost one not counted
RECURSIVE UlAncestors(_, _)
UlAncestors(dom, node) ==
    IF dom.parent[node] = 0 THEN 0
    ELSE (IF dom.tag[dom.parent[node]] = "UL" THEN 1 ELSE 0)
         + UlAncestors(dom, dom.parent[node])

ListDepth(dom, node) ==
    IF UlAncestors(dom, node) = 0 THEN 0 ELSE UlAncestors(dom, node) - 1

LinksOf(dom) ==
    SelectSeq([i \in 1..Len(dom.tag) |-> i], LAMBDA i : dom.tag[i] = "A")

C3_GroupIffDepthIncrease ==
    Built =>
        \A i \in 1..Len(navATags) : \A j \in 1..Len(navATags[i]) :
            LET items == ItemsOf(walked)
                made == items[IndexOfSrc(items, <<i, j>>)]
            IN  (made.kind = "group")
                    <=> /\ j < Len(navATags[i])
                        /\ ToNumber(navATags[i][j].level)
                              < ToNumber(navATags[i][j + 1].level)

IsScenario ==
    /\ Built
    /\ Len(navSections_) = 1
    /\ navSections_[1].tag = <<"UL", "LI", "A", "LI", "UL", "LI", "A">>
    /\ navSections_[1].parent = <<0, 1, 2, 1, 4, 5, 6>>

\* C4 (as claimed): the scenario's root holds one leaf Home and one group, and
\* the group holds exactly the leaf Sub.
C4_RootHoldsLeafHomeAndGroup ==
    IsScenario =>
        /\ Len(SelectSeq(navPanel_, LAMBDA it : it.kind = "leaf")) = 1
        /\ \E k \in 1..Len(navPanel_) :
               navPanel_[k].kind = "leaf" /\ navPanel_[k].a.html = <<"H">>
        /\ Len(SelectSeq(navPanel_, LAMBDA it : it.kind = "group")) = 1
        /\ \A k \in 1..Len(navPanel_) :
               navPanel_[k].kind = "group" =>
                   /\ Len(navPanel_[k].sub) = 1
                   /\ navPanel_[k].sub[1].kind = "leaf"
                   /\ navPanel_[k].sub[1].a.html = <<"S">>

\* C4 (amended): the scenario's root holds one item only, a group labelled
\* Home whose anchor has href '#'; the walk puts exactly the leaf Sub into
\* that group, and Sub is in the finished panel when the link has an href.
C4_HomeBecomesGroupLabel ==
    IsScenario =>
        LET sub == navSections_[1].link[7]
        IN  /\ Len(walked) = 1
            /\ walked[1].kind = "group"
            /\ walked[1].a = Anchor(HashHref, <<"H">>, <<>>)
            /\ Len(walked[1].sub) = 1
            /\ walked[1].sub[1].kind = "leaf"
            /\ walked[1].sub[1].a = sub
            /\ walked[1].sub[1].sub = <<>>
            /\ LeavesOf(walked) = <<[kind |-> "leaf", a |-> sub, src |-> <<1, 2>>,
                                     path |-> <<1, 1>>, groups |-> 1]>>
            /\ navPanel_ = IF sub.href = NoHref
                           THEN <<[walked[1] EXCEPT !.sub = <<>>]>>
                           ELSE walked

C4_Witness == IsScenario /\ navSections_[1].link[7].href # NoHref /\ ~threw

(***************************************************************************)
(* The redraw coordinator and the interaction state machine (Spec).        *)
(***************************************************************************)
\* the handler of this step ran redrawHeader_
HeaderRedrawn(effects) == "redrawHeader_" \in Range(effects.redraws)

Top(el) == pixelValue(ComputedTop(el))

\* the guards of lines 529 and 533
Shiftable(el) ==
    el.position # "static" /\ Top(el) # <<>> /\ pixelValue(el.top) # <<>>

\* C6 (as claimed): between two consecutive runs of redrawHeader_, when the
\* measured header height changes by a delta other than 0, the top of every
\* element of elementsToOffset_ changes by exactly that delta.
C6_EveryOffsetShiftsByDelta ==
    [][(HeaderRedrawn(fx') /\ fx.runs >= 1 /\ fx'.measured # fx.measured) =>
          \A e \in mob.elementsToOffset_ :
              /\ Top(doc.el[e]) # <<>>
              /\ Top(doc'.el[e])
                     = <<Top(doc.el[e])[1] + (fx'.measured - fx.measured)>>]_vars

\* C6 (amended): between two consecutive runs of redrawHeader_, when the
\* measured header height changes by a delta other than 0, the top of every
\* element of elementsToOffset_ that the later run finds positioned (not
\* static), with a computed top in pixels and an inline top in pixels,
\* changes by exactly that delta; the run leaves any other element alone.
C6_PositionedOffsetsShiftByDelta ==
    [][(HeaderRedrawn(fx') /\ fx.runs >= 1 /\ fx'.measured # fx.measured) =>
          \A e \in mob.elementsToOffset_ :
              IF Shiftable(doc.el[e])
              THEN doc'.el[e] =
                       [doc.el[e] EXCEPT
                           !.top = Px(@.n + (fx'.measured - fx.measured))]
              ELSE doc'.el[e] = doc.el[e]]_vars

\* a later run has measured another height and has shifted a positioned element
C6_Witness ==
    /\ HeaderRedrawn(fx) /\ fx.runs = 2 /\ fx.scrollBy # <<>>
    /\ \E e \in mob.elementsToOffset_ :
           /\ Shiftable(doc.el[e])
           /\ doc.el[e].top = Px(doc.el[e].rectTop + fx.measured)

\* C7: redrawHeader_ calls window.scrollBy exactly when it has run before and
\* the height it measures differs from the height the run before measured,
\* and then once, by (new height - previous height); a handler that does not
\* run redrawHeader_ calls scrollBy not at all.
C7_ScrollByExactlyOnChange ==
    [][fx'.scrollBy =
          IF HeaderRedrawn(fx') /\ fx.runs >= 1 /\ fx'.measured # fx.measured
          THEN <<fx'.measured - fx.measured>>
          ELSE <<>>]_vars

\* a later run that measured another height, and so scrolled
C7_Witness ==
    HeaderRedrawn(fx) /\ fx.runs = 2 /\ Len(fx.scrollBy) = 1 /\ fx.scrollBy[1] # 0

PanelOpen(d) == "open" \in d.class.navPanel

\* C8: a click on the menu button flips isNavPanelOpen_ and the panel's 'open'
\* class; the second of two clicks in a row restores what held before the
\* first one.
C8_ToggleFlipsAndTwiceRestores ==
    [][fx'.click = "menuclick" =>
          /\ mob'.isNavPanelOpen_ = ~mob.isNavPanelOpen_
          /\ PanelOpen(doc') = ~PanelOpen(doc)
          /\ fx.click = "menuclick" =>
                 /\ mob'.isNavPanelOpen_ = fx.was.flag
                 /\ PanelOpen(doc') = fx.was.open
                 /\ PanelOpen(doc) = ~fx.was.open]_vars

\* two clicks in a row on a closed panel: the second has cleared the class
C8_Witness ==
    /\ fx.click = "menuclick" /\ fx.streak = 2
    /\ fx.was.flag /\ fx.was.open
    /\ ~mob.isNavPanelOpen_ /\ ~PanelOpen(doc)

\* C9: a click on the click detector closes an open panel and changes nothing
\* when the panel is closed: no field, no class, no beacon, no redraw; it
\* never opens the panel.
C9_OutsideClickOnlyCloses ==
    [][fx'.click = "detectorclick" =>
          IF mob.isNavPanelOpen_
          THEN ~mob'.isNavPanelOpen_ /\ ~PanelOpen(doc')
          ELSE /\ mob' = mob
               /\ doc' = doc
               /\ fx'.sent = <<>>
               /\ fx'.redraws = <<>>
               /\ UNCHANGED <<pc, panelVars>>]_vars

\* an outside click has closed the open panel
C9_Witness ==
    /\ fx.click = "detectorclick" /\ fx.was.flag
    /\ ~mob.isNavPanelOpen_ /\ fx.sent = <<"MENU_BUTTON_CLOSE">>

\* C10: the 'open' class of the header bar, of the nav panel and of the click
\* detector, the 'noscroll' class of the body and isNavPanelOpen_ have the
\* same truth value in every state.
C10_OpenClassesAgreeWithFlag ==
    /\ ("open" \in doc.class.headerBar) = mob.isNavPanelOpen_
    /\ ("open" \in doc.class.navPanel) = mob.isNavPanelOpen_
    /\ ("open" \in doc.class.clickDetector) = mob.isNavPanelOpen_
    /\ ("noscroll" \in doc.class.body) = mob.isNavPanelOpen_

\* the panel is open and a scroll has armed the timer since it was opened
C10_Witness ==
    /\ mob.isNavPanelOpen_ /\ mob.scrollTimer_ # 0 /\ fx.click = ""
    /\ "open" \in doc.class.clickDetector /\ "noscroll" \in doc.class.body

(***************************************************************************)
(* Discovery: what the claims speak of.                                    *)
(***************************************************************************)
\* the elements of d that carry the id
WithId(d, id) ==
    {n \in 1..Len(d.node) : d.node[n].kind = "element" /\ d.node[n].id = id}

\* how often n stands in the list of the inserted nodes
Occurrences(d, n) == Cardinality({k \in 1..Len(d.order) : d.order[k] = n})

Discovered == pc \in {"found", "refound"}

HasPanel(d) == WithId(d, NAV_PANEL) # {}

\* C11: when findNavSections_ runs on a page with the explicit panel, the
\* page has afterwards exactly one panel element, a child of the body, and
\* when it has run before, the run leaves the document as it found it: no
\* node added, duplicated or moved
C11_SecondRunChangesNothing ==
    [][(HasPanel(doc.dom) /\ pc \in {"find", "found", "refound"})
         => /\ Cardinality(WithId(doc'.dom, NAV_PANEL)) = 1
            /\ \A n \in WithId(doc'.dom, NAV_PANEL) :
                   doc'.dom.parent[n] = 1 /\ Occurrences(doc'.dom, n) = 1
            /\ Discovered => doc'.dom = doc.dom]_vars

C11_Witness ==
    /\ pc = "refound"
    /\ mob.navPanel_
    /\ \E n \in WithId(doc.dom, NAV_PANEL) :
           doc.dom.parent[n] = 1 /\ doc.dom.order[Len(doc.dom.order)] = n

\* C12 as stated: with the explicit panel, the section sequence is exactly
\* the panel element, a child of the body, and the id list is not used
C12_PanelIsTheOnlySection ==
    (Discovered /\ HasPanel(doc.dom))
        => /\ \E n \in WithId(doc.dom, NAV_PANEL) :
                  mob.navSections_ = <<n>> /\ doc.dom.parent[n] = 1
           /\ fx.found = <<>>

\* C12: with the explicit panel, discovery keeps the element as navPanel_
\* and leaves the section sequence empty; the element becomes a child of
\* the body, no id of the id list is resolved and no node gets a new id
C12_PanelAloneAndListUnused ==
    [][(HasPanel(doc.dom) /\ pc \in {"find", "found", "refound"})
         => /\ mob'.navPanel_
            /\ mob'.navSections_ = <<>>
            /\ \A n \in WithId(doc'.dom, NAV_PANEL) : doc'.dom.parent[n] = 1
            /\ fx'.found = <<>>
            /\ doc'.dom.node = doc.dom.node]_vars

C12_Witness ==
    /\ pc = "found"
    /\ HasPanel(doc.dom)
    /\ mob.navPanel_
    /\ doc.navigationalIds # <<>>
    /\ getElementById(doc.dom, doc.navigationalIds[1]) # 0

\* n lies below p
RECURSIVE IsBelow(_, _, _)
IsBelow(d, n, p) ==
    /\ d.parent[n] # 0
    /\ (d.parent[n] = p \/ IsBelow(d, d.parent[n], p))

ScriptBelow(d, p) ==
    \E n \in 1..Len(d.node) : d.node[n].tag = "SCRIPT" /\ IsBelow(d, n, p)

\* the calls of canEnlargeNav_ the last discovery made
EnlargeCalls == {i \in 1..Len(fx.found) : fx.found[i].evaluated}

\* C13: canEnlargeNav_ returns false whenever a script element lies
\* anywhere below the parent of the element
C13_NeverEnlargesOverScript ==
    \A i \in EnlargeCalls :
        ScriptBelow(doc.dom, fx.found[i].parent)
            => ~fx.found[i].enlarged /\ fx.found[i].pushed = fx.found[i].element

\* the script is not a child of the parent, and nothing else keeps the
\* parent from being taken
C13_Witness ==
    /\ pc = "found"
    /\ \E i \in EnlargeCalls :
           LET p == fx.found[i].parent
           IN  /\ ScriptBelow(doc.dom, p)
               /\ Len(childNodes(doc.dom, p)) = 2
               /\ \A n \in 1..Len(doc.dom.node) :
                      doc.dom.node[n].tag = "SCRIPT"
                          => doc.dom.parent[n] \notin {p, fx.found[i].element}
               /\ ~fx.found[i].enlarged

\* the place of n among the children of its parent
PlaceOf(d, n) ==
    CHOOSE k \in 1..Len(childNodes(d, d.parent[n])) :
        childNodes(d, d.parent[n])[k] = n

\* the text nodes and elements that follow the element under its parent and
\* hold text that is not white space
TextAfter(d, element) ==
    LET children == childNodes(d, d.parent[element])
    IN  {children[k] : k \in {j \in 1..Len(children) :
            /\ j > PlaceOf(d, element)
            /\ d.node[children[j]].kind \in {"text", "element"}
            /\ Len(trim(TextContentOf(d, children[j]))) > 0}}

\* C14 as stated: canEnlargeNav_ returns false whenever a sibling that
\* follows the element holds text that is not white space
C14_NeverEnlargesBeforeText ==
    \A i \in EnlargeCalls :
        TextAfter(doc.dom, fx.found[i].element) # {} => ~fx.found[i].enlarged

\* an element without offsetParent next to an element that has one
HiddenFrom(d, child, element) ==
    d.node[child].kind = "element" /\ ~d.node[child].visible
        /\ d.node[element].visible

\* C14: canEnlargeNav_ returns false whenever a sibling that follows the
\* element holds text that is not white space, unless that sibling is an
\* element that is not displayed while the element is
C14_NeverEnlargesBeforeShownText ==
    \A i \in EnlargeCalls :
        (\E c \in TextAfter(doc.dom, fx.found[i].element) :
             ~HiddenFrom(doc.dom, c, fx.found[i].element))
            => ~fx.found[i].enlarged

\* a text node is all that follows the displayed element, and no script and
\* no image is below the parent
C14_Witness ==
    /\ pc = "found"
    /\ \E i \in EnlargeCalls :
           LET e == fx.found[i].element
               children == childNodes(doc.dom, fx.found[i].parent)
           IN  /\ doc.dom.node[e].visible
               /\ Len(children) = 2 /\ children[1] = e
               /\ doc.dom.node[children[2]].kind = "text"
               /\ TextAfter(doc.dom, e) = {children[2]}
               /\ ~fx.found[i].enlarged

\* the ids looked at before the i-th that had the same parent identity
EarlierOfParent(i) ==
    {j \in 1..(i - 1) : fx.found[j].parentId = fx.found[i].parentId}

\* the sections the loop pushed, in the order of the id list
RECURSIVE PushedFrom(_)
PushedFrom(k) ==
    IF k > Len(fx.found) THEN <<>>
    ELSE (IF fx.found[k].pushed # 0 THEN <<fx.found[k].pushed>> ELSE <<>>)
         \o PushedFrom(k + 1)

\* C15: in the id-list path the enlarge decision is taken when a parent
\* identity is first seen, and the parent or the child is appended; a later
\* id of the same parent identity appends its child when the decision was
\* 'not enlarged' and nothing when it was 'enlarged'; the sections keep the
\* order of the id list
C15_DecidesOncePerParent ==
    (Discovered /\ ~HasPanel(doc.dom))
        => /\ \A i \in 1..Len(fx.found) :
                  LET e == fx.found[i]
                      earlier == EarlierOfParent(i)
                      first == CHOOSE j \in earlier : \A k \in earlier : j <= k
                  IN  (e.element # 0 /\ e.parent # 0)
                        => IF earlier = {}
                           THEN e.evaluated /\ e.pushed \in {e.parent, e.element}
                           ELSE /\ ~e.evaluated
                                /\ e.pushed = IF fx.found[first].enlarged
                                              THEN 0 ELSE e.element
           /\ ~fx.threw => mob.navSections_ = PushedFrom(1)

\* the first id of the list that no element of the document carries
Gone(d, ids) == {i \in 1..Len(ids) : WithId(d, ids[i]) = {}}

\* C16: an id of the id list that resolves to no element ends discovery
\* with an error at that id: no later id is looked at, and navSections_ is
\* not assigned
C16_UnresolvedIdFailsFast ==
    (Discovered /\ ~HasPanel(doc.dom) /\ Gone(doc.dom, doc.navigationalIds) # {})
        => LET gone == CHOOSE i \in Gone(doc.dom, doc.navigationalIds) :
                           \A j \in Gone(doc.dom, doc.navigationalIds) : i <= j
           IN  /\ fx.threw
               /\ Len(fx.found) = gone
               /\ fx.found[gone].element = 0
               /\ mob.navSections_ = <<>>

\* ids were resolved before the unresolved one, and ids follow it
C16_Witness ==
    /\ pc = "found"
    /\ fx.threw
    /\ Len(fx.found) = 2
    /\ fx.found[1].pushed # 0
    /\ Len(doc.navigationalIds) = 3
    /\ WithId(doc.dom, doc.navigationalIds[3]) # {}

\* C17: a failure at one entry of the id list does not keep the other
\* entries from being processed: every id that resolves has been looked at,
\* and its element or the parent of its element is among the sections
C17_FailureSparesOtherEntries ==
    (Discovered /\ ~HasPanel(doc.dom) /\ Gone(doc.dom, doc.navigationalIds) # {})
        => \A i \in 1..Len(doc.navigationalIds) :
               \A n \in WithId(doc.dom, doc.navigationalIds[i]) :
                   doc.dom.node[doc.dom.parent[n]].id \notin ObjectPrototype
                     => /\ i <= Len(fx.found)
                        /\ \E k \in 1..Len(mob.navSections_) :
                               mob.navSections_[k] \in {n, doc.dom.parent[n]}

(***************************************************************************)
(* The offset pre-pass: what the claim speaks of.                          *)
(***************************************************************************)
\* the elements of the document: those a path of parents leads to the body
RECURSIVE Attached(_, _)
Attached(els, e) ==
    e = "body" \/ (els[e].parent \in DOMAIN els /\ Attached(els, els[e].parent))

\* the elements above e, up to the body
RECURSIVE Above(_, _)
Above(els, e) ==
    IF e = "body" THEN {} ELSE {els[e].parent} \cup Above(els, els[e].parent)

\* outside the overlay: neither e nor an element above it is of the overlay
Outside(els, e) == \A a \in {e} \cup Above(els, e) : ~InOverlay(els[a])

PositionedWithPixelTop(el) ==
    el.position # "static" /\ ComputedTop(el).unit = "px"

PageOf(els) == {e \in DOMAIN els : Attached(els, e)}

ToggleBeacon(d) ==
    IF PanelOpen(d) THEN "MENU_BUTTON_CLOSE" ELSE "MENU_BUTTON_OPEN"

\* C19: every user action fires its beacon exactly once: a click on the
\* menu button sends the one beacon of the toggle, MENU_BUTTON_OPEN when the
\* panel was closed and MENU_BUTTON_CLOSE when it was open, a click on the
\* map button sends one MAP_BUTTON, one call of Run sends one NAV_DONE; the
\* open and close beacons alternate, starting with open: Run leaves the
\* panel closed, and the panel opens and closes only in a step that sends
\* the beacon of that change and no other
C19_EveryActionBeaconsOnce ==
    [][/\ fx'.click = "menuclick" => fx'.sent = <<ToggleBeacon(doc)>>
       /\ fx'.click = "mapclick" => fx'.sent = <<"MAP_BUTTON">>
       /\ pc = "new" => fx'.sent = <<"NAV_DONE">> /\ ~PanelOpen(doc')
       /\ (pc = "ran" /\ PanelOpen(doc') # PanelOpen(doc))
              => fx'.sent = <<ToggleBeacon(doc)>>
       /\ (pc = "ran" /\ PanelOpen(doc') = PanelOpen(doc))
              => \A i \in 1..Len(fx'.sent) :
                     fx'.sent[i] \notin {"MENU_BUTTON_OPEN", "MENU_BUTTON_CLOSE"}]_vars

\* the timers window.setTimeout has armed and that have neither expired nor
\* been cleared are those scrollTimer_ names
Pending(m) == IF m.scrollTimer_ = 0 THEN {} ELSE {m.scrollTimer_}

\* C20: after every step at most one debounce timer is pending, the one
\* scrollTimer_ names; a scroll or touch-end that finds a timer pending
\* clears exactly that timer and arms one, so that one timer is left to
\* expire after the last event of a burst
C20_OneDebounceTimer ==
    [][/\ Cardinality(doc'.timers) <= 1
       /\ doc'.timers = Pending(mob')
       /\ fx'.cleared # <<>>
              => /\ fx'.cleared = <<mob.scrollTimer_>>
                 /\ doc.timers = {mob.scrollTimer_}
                 /\ Cardinality(doc'.timers) = 1]_vars

\* an event of a burst has found the timer of the event before it pending
C20_Witness ==
    /\ pc = "ran"
    /\ fx.cleared # <<>>
    /\ Cardinality(doc.timers) = 1
    /\ doc.timers = Pending(mob)

(***************************************************************************)
(* The paths to a recompute and the order of Run: what the claims speak    *)
(* of.                                                                     *)
(***************************************************************************)
\* the handler of this step ran redrawHeader_ or redrawNavPanel_
Redrawn(effects) == effects.redraws # <<>>

\* C21 (as claimed): once Run has armed the coordinator, a step whose handler
\* runs redrawHeader_ or redrawNavPanel_ is the expiry of the debounce timer:
\* no scroll, touch, orientation-change, load or toggle event runs a redraw
\* directly.
C21_OnlyTheTimerRedraws ==
    [][(pc = "ran" /\ Redrawn(fx')) => fx'.click = "timer"]_vars

\* C21 (amended): once Run has armed the coordinator, a step whose handler
\* runs a redraw is the expiry of the debounce timer, an orientation change,
\* the window's load event or a toggle of the panel (a click on the menu
\* button, or on the click detector while the panel is open); a scroll or a
\* touch event runs no redraw, it only arms the timer.  The load event
\* redraws the header alone and a toggle the panel alone.
C21_ScrollAndTouchOnlyArmTheTimer ==
    [][(pc = "ran" /\ Redrawn(fx')) =>
          \/ fx'.click \in {"timer", "orientationchange"}
          \/ fx'.click = "load" /\ fx'.redraws = <<"redrawHeader_">>
          \/ /\ fx'.click \in {"menuclick", "detectorclick"}
             /\ fx'.redraws = <<"redrawNavPanel_">>]_vars

\* a scroll with no finger down has armed the timer and has redrawn nothing
C21_Witness ==
    /\ pc = "ran" /\ ~Redrawn(fx)
    /\ mob.scrollTimer_ # 0 /\ "hide" \in doc.class.headerBar
    /\ mob.currentTouches_ = 0

\* the places of a step in the order of the last handler
StepsAt(name) == {i \in 1..Len(fx.steps) : fx.steps[i] = name}

C23_RunCompletes ==
    fx.click = "Run" =>
        /\ ~fx.threw
        /\ mob.headerBar_
        /\ "scroll" \in doc.listeners
        /\ "NAV_DONE" \in Range(fx.sent)

(***************************************************************************)
(* The expiry of the debounce timer: what the claims speak of.             *)
(***************************************************************************)
\* what a recompute of the timer's callback redraws: the panel, when there
\* is one, and then the header
BothRedraws(m) ==
    IF m.navPanel_ THEN <<"redrawNavPanel_", "redrawHeader_">>
    ELSE <<"redrawHeader_">>

\* C24: when the timer expires while currentTouches_ is greater than 0 on a
\* browser that is not the stock Android browser, nothing is redrawn (no
\* class, style or element of the document changes) and scrollTimer_ is
\* cleared; on the stock Android browser the expiry redraws the panel and
\* the header whatever currentTouches_ is.
C24_ExpiryWithTouchesRedrawsOnAndroidOnly ==
    [][fx'.click = "timer" =>
          /\ mob'.scrollTimer_ = 0
          /\ (~mob.isAndroidBrowser_ /\ mob.currentTouches_ > 0) =>
                 /\ fx'.redraws = <<>>
                 /\ mob' = [mob EXCEPT !.scrollTimer_ = 0]
                 /\ doc' = [doc EXCEPT !.timers = {}]
          /\ mob.isAndroidBrowser_ => fx'.redraws = BothRedraws(mob)]_vars

\* the timer has expired with a finger down and has redrawn nothing: the
\* header bar is still hidden
C24_Witness ==
    /\ fx.click = "timer" /\ ~mob.isAndroidBrowser_
    /\ mob.currentTouches_ > 0 /\ mob.scrollTimer_ = 0
    /\ fx.redraws = <<>> /\ "hide" \in doc.class.headerBar

\* on the stock Android browser the timer has expired with a finger down and
\* has redrawn the panel and the header
C24_WitnessAndroid ==
    /\ fx.click = "timer" /\ mob.isAndroidBrowser_
    /\ mob.currentTouches_ > 0 /\ mob.scrollTimer_ = 0
    /\ fx.redraws = <<"redrawNavPanel_", "redrawHeader_">>

SameLength(a, b) == a[1] * b[2] = b[1] * a[2]

PanelRedrawn(effects) == "redrawNavPanel_" \in Range(effects.redraws)

\* (window.innerHeight - the height of the header bar's box) / scale, with
\* the header bar as it is scaled in d
HeightBelowHeader(d) ==
    <<ViewportHeight * d.innerWidth - HeaderOffsetHeight * d.headerScale,
      d.innerWidth>>

\* C28: after every handler that has redrawn the panel (Run, the timer's
\* callback, the orientation-change listener) the height of the nav panel is
\* (window.innerHeight - the height of the header bar on the screen) divided
\* by the scale; on Opera Mini the height is never set.
C28_PanelFillsBelowHeader ==
    (pc = "ran" /\ ~fx.threw /\ PanelRedrawn(fx)) =>
        IF mob.isOperaMini_
        THEN doc.navPanelStyle.height
                 = NewDoc(Page("", Body, <<>>, <<>>, ""), 1).navPanelStyle.height
        ELSE SameLength(doc.navPanelStyle.height, HeightBelowHeader(doc))

\* the width of the nav panel as it is scaled in d
TransformedWidth(d) == <<NavPanelOffsetWidth * d.innerWidth, ViewportWidth>>

\* the handler of this step was toggleNavPanel_
Toggled ==
    \/ fx'.click = "menuclick"
    \/ fx'.click = "detectorclick" /\ PanelOpen(doc)

\* C29: every toggle redraws the panel, and after every handler that has
\* redrawn the panel (a toggle, Run, the timer's callback, the
\* orientation-change listener) the panel's left, taken from window.scrollX,
\* is 0 when the panel is open and minus its transformed width when it is
\* closed, and its top is the window.scrollY that the redraw read, the one
\* the handler found.
C29_PanelOnOrOffCanvasAtScrollTop ==
    [][/\ Toggled => PanelRedrawn(fx')
       /\ PanelRedrawn(fx') =>
              /\ PanelOpen(doc') = mob'.isNavPanelOpen_
              /\ IF mob'.isNavPanelOpen_
                 THEN doc'.navPanelStyle.left[1] = 0
                 ELSE /\ doc'.navPanelStyle.left[1] < 0
                      /\ SameLength(doc'.navPanelStyle.left,
                                    <<-TransformedWidth(doc')[1],
                                      TransformedWidth(doc')[2]>>)
              /\ doc'.navPanelStyle.top = doc.scrollY]_vars

\* the panel was opened while the window was scrolled and zoomed, and the
\* click detector has closed it: it is off the canvas at the scroll position
C29_Witness ==
    /\ fx.click = "detectorclick" /\ fx.was.open /\ ~PanelOpen(doc)
    /\ doc.scrollY > 0 /\ doc.innerWidth < ViewportWidth
    /\ doc.navPanelStyle.top = doc.scrollY
    /\ doc.navPanelStyle.left = <<-(NavPanelOffsetWidth * doc.innerWidth), ViewportWidth>>

(***************************************************************************)
(* The membership of elementsToOffset_.                                    *)
(***************************************************************************)
\* the places of the scan in the order of the handler of this step
ScansAt == {i \in 1..Len(fx'.steps) : fx'.steps[i] = "findElementsToOffset_"}

HeightNow(d) == TransformedHeight(d.innerWidth)

\* nothing is left that would run a handler of the overlay
Quiet == Settling /\ doc.timers = {} /\ ~doc.scrollQueued

\* C25: once the viewport no longer changes and the user gives no input, the
\* chain redraw, scrollBy, scroll event, timer, redraw ends: a redraw stores
\* the height of the viewport, a redraw that finds the stored height equal to
\* the measured one makes no scrollBy, so that after the scroll event of one
\* compensating scrollBy no redraw makes another; and the coordinator comes
\* to rest with no timer pending and no scroll event queued.
C25_CompensationSettles ==
    /\ [][(Settling /\ HeaderRedrawn(fx')) =>
              /\ mob'.headerBarHeight_ = HeightNow(doc)
              /\ mob.headerBarHeight_ = HeightNow(doc) => fx'.scrollBy = <<>>]_vars
    /\ [][pc = "scrolled" => fx'.scrollBy = <<>>]_vars
    /\ <>[](Settling => Quiet)

\* the redraw after the compensating scroll has found equal heights and has
\* left no timer behind
C25_Witness ==
    /\ pc = "scrolled" /\ fx.click = "timer"
    /\ HeaderRedrawn(fx) /\ fx.scrollBy = <<>>
    /\ mob.headerBarHeight_ = HeightNow(doc)
    /\ Quiet

Hidden == "hide" \in doc.class.headerBar

\* C26: when the user's last gesture is over and its touches have ended, the
\* last touch-end reporting zero touches, a header bar that the scroll or
\* the touch-move of the gesture has hidden while the panel was closed
\* becomes visible again and stays visible from some time on: a redraw
\* removes the 'hide' class.
C26_HiddenHeaderComesBack ==
    <>[]((Settling /\ mob.currentTouches_ = 0) => ~Hidden)

\* the gesture is over: a touch-move has hidden the header bar of the closed
\* panel, and the touch-end of the last finger has armed the timer
C26_Witness ==
    /\ pc = "still" /\ fx.click = "" /\ Hidden
    /\ ~mob.isNavPanelOpen_ /\ ~mob.isAndroidBrowser_
    /\ mob.currentTouches_ = 0 /\ doc.touches = 0
    /\ mob.scrollTimer_ # 0 /\ ~doc.loaded

(***************************************************************************)
(* The text budget of canEnlargeNav_.                                      *)
(***************************************************************************)
\* the children of the parent of the element that the loop measures: text
\* nodes and elements, but no element that is not displayed while the
\* element is
Considered(d, child, element) ==
    /\ child # element
    /\ d.node[child].kind \in {"text", "element"}
    /\ ~HiddenFrom(d, child, element)

TrimmedSize(d, child) == Len(trim(TextContentOf(d, child)))

\* the trimmed text lengths of the considered children before the k-th
RECURSIVE TextSizeBefore(_, _, _)
TextSizeBefore(d, element, k) ==
    IF k <= 1 THEN 0
    ELSE LET child == childNodes(d, d.parent[element])[k - 1]
         IN  TextSizeBefore(d, element, k - 1)
                 + (IF Considered(d, child, element) THEN TrimmedSize(d, child)
                    ELSE 0)

PreElementText(d, element) == TextSizeBefore(d, element, PlaceOf(d, element))

\* a considered child holds an image that counts
ImageBeside(d, element) ==
    \E c \in Range(childNodes(d, d.parent[element])) :
        Considered(d, c, element) /\ hasImages_(d, d.node[element].visible, c)

\* C31: canEnlargeNav_ refuses whenever the trimmed texts of the considered
\* siblings before the element add up to more than 60 characters, also when
\* none of them is longer than 60; with a sum of at most 60, exactly 60
\* included, and no script, image or text after the element, it enlarges
C31_BudgetIsOnTheSumBefore ==
    \A i \in EnlargeCalls :
        LET e == fx.found[i].element
        IN  /\ PreElementText(doc.dom, e) > TextBudget => ~fx.found[i].enlarged
            /\ (/\ PreElementText(doc.dom, e) <= TextBudget
                /\ ~ScriptBelow(doc.dom, fx.found[i].parent)
                /\ ~ImageBeside(doc.dom, e)
                /\ \A c \in TextAfter(doc.dom, e) : HiddenFrom(doc.dom, c, e))
                   => fx.found[i].enlarged

\* two texts before the element, none longer than the budget, pass it together
C31_Witness ==
    /\ pc = "found"
    /\ \E i \in EnlargeCalls :
           LET e == fx.found[i].element
               children == childNodes(doc.dom, fx.found[i].parent)
           IN  /\ PreElementText(doc.dom, e) = TextBudget + 1
               /\ \A k \in 1..Len(children) :
                      TrimmedSize(doc.dom, children[k]) <= TextBudget
               /\ ~ScriptBelow(doc.dom, fx.found[i].parent)
               /\ ~ImageBeside(doc.dom, e)
               /\ ~fx.found[i].enlarged

\* the texts before the element add up to exactly the budget
C31_WitnessExactly ==
    /\ pc = "found"
    /\ \E i \in EnlargeCalls :
           /\ PreElementText(doc.dom, fx.found[i].element) = TextBudget
           /\ fx.found[i].enlarged

(***************************************************************************)
(* The stack of open submenus during the walk.                             *)
(***************************************************************************)
\* navTopUl when the walk reaches section i
RECURSIVE TreeBefore(_)
TreeBefore(i) ==
    IF i = 1 THEN <<>>
    ELSE WalkLinks(i - 1, navATags[i - 1], 1, TreeBefore(i - 1), <<<<>>>>)

\* the stack before each link of section i, and after the last
StacksOf(i) == WalkStacks(i, navATags[i], 1, TreeBefore(i), <<<<>>>>)

Min(a, b) == IF a < b THEN a ELSE b

DepthDrop(i, j) ==
    ToNumber(navATags[i][j].level)
        - (IF j = Len(navATags[i]) THEN ToNumber(navATags[i][j].level)
           ELSE ToNumber(navATags[i][j + 1].level))

\* the stack keeps the root list at its bottom, and the item made from link
\* j lies in the submenu on top of the stack
RootStaysAndTopTakes(i, j) ==
    LET before == StacksOf(i)[j]
        after == StacksOf(i)[j + 1]
        items == ItemsOf(walked)
        made == items[IndexOfSrc(items, <<i, j>>)]
    IN  /\ before # <<>> /\ before[1] = <<>>
        /\ after # <<>> /\ after[1] = <<>>
        /\ SubSeq(made.path, 1, Len(made.path) - 1) = before[Len(before)]
        /\ made.kind = "leaf"
               => /\ Len(after) <= Len(before)
                  /\ after = SubSeq(before, 1, Len(after))

\* C32: during the walk of a section the stack always holds the root list,
\* every leaf is appended to the submenu on top of the stack, and after the
\* leaf made from link j the stack is shorter by
\* min(depth(link[j]) - depth(link[j+1]), stack size - 1)
C32_PopsByDepthDropDownToRoot ==
    Built =>
        \A i \in 1..Len(navATags) : \A j \in 1..Len(navATags[i]) :
            LET before == StacksOf(i)[j]
                after == StacksOf(i)[j + 1]
                items == ItemsOf(walked)
            IN  /\ RootStaysAndTopTakes(i, j)
                /\ items[IndexOfSrc(items, <<i, j>>)].kind = "leaf"
                       => Len(before) - Len(after)
                              = Min(DepthDrop(i, j), Len(before) - 1)

\* what holds of the walk: the same with no pop where the depth does not drop
C32_PopsWhereDepthDrops ==
    Built =>
        \A i \in 1..Len(navATags) : \A j \in 1..Len(navATags[i]) :
            LET before == StacksOf(i)[j]
                after == StacksOf(i)[j + 1]
                items == ItemsOf(walked)
            IN  /\ RootStaysAndTopTakes(i, j)
                /\ items[IndexOfSrc(items, <<i, j>>)].kind = "leaf"
                       => Len(before) - Len(after)
                              = IF DepthDrop(i, j) < 0 THEN 0
                                ELSE Min(DepthDrop(i, j), Len(before) - 1)

\* a leaf whose depth drops by more than the stack holds above the root
C32_Witness ==
    /\ Built
    /\ \E i \in 1..Len(navATags) : \E j \in 1..Len(navATags[i]) :
           /\ Len(StacksOf(i)[j]) = 2
           /\ DepthDrop(i, j) > 1
           /\ StacksOf(i)[j + 1] = <<<<>>>>

(***************************************************************************)
(* Touch moves on the nav panel.                                           *)
(***************************************************************************)
Moved(effects) == effects.move # <<>>

AtTop(move) == move.scrollTop = 0

\* within one pixel of the end
AtBottom(move) == move.scrollTop >= MaxPanelScroll - 1

GroupsSection ==
    ChainDom([k \in 1..5 |-> [depth |-> <<0, 1, 2, 0, 1>>[k], a |-> PlainLink(k)]])

GroupPages ==
    {Page("desktop", ListDom, <<"nav">>, SectionsOf(GroupsSection), "Chrome"),
     Page("mobile", ServerDom, <<>>, <<>>, "Chrome")}

InitGroups ==
    /\ pc = "new"
    /\ navSections_ = <<>>
    /\ psLayoutMode = FALSE
    /\ navATags = <<>>
    /\ walked = <<>>
    /\ deduped = <<>>
    /\ navPanel_ = <<>>
    /\ threw = FALSE
    /\ \E p \in GroupPages, w \in 1..ViewportWidth :
           /\ mob = NewMob(p.userAgent)
           /\ doc = NewDoc(p, w)
    /\ fx = NoFx

\* the label DIVs of the panel: '#psmob-nav-panel div' (line 1235)
NavDivs ==
    {it.path : it \in {x \in Range(ItemsOf(navPanel_)) : x.kind = "group"}}

\* a click on the label of a group
NavButtonClick ==
    /\ Listens("navclick")
    /\ \E div \in NavDivs :
           Becomes(NavButtonListener(Handler("navclick", State), div))
    /\ UNCHANGED <<pc, panelVars>>

NextGroups ==
    \/ Run
    \/ MenuButtonClick
    \/ ClickDetectorClick
    \/ NavButtonClick

SpecGroups == InitGroups /\ [][NextGroups]_vars

\* the groups whose state differs between two sets of open groups
Flipped(a, b) == (a \ b) \cup (b \ a)

\* C34: a click on a group label flips the open state of that group's
\* submenu and of no other, and leaves the open state of the panel (flag and
\* classes) as it is; a click on the menu button or outside the panel leaves
\* the open state of every group as it is
C34_GroupAndPanelToggleApart ==
    [][/\ fx'.click = "navclick"
           => /\ Cardinality(Flipped(doc'.group.open, doc.group.open)) = 1
              /\ Flipped(doc'.group.open, doc.group.open) \subseteq NavDivs
              /\ mob'.isNavPanelOpen_ = mob.isNavPanelOpen_
              /\ doc'.class = doc.class
       /\ (pc = "ran" /\ fx'.click \in {"menuclick", "detectorclick"})
           => doc'.group = doc.group]_vars

\* the panel is open with the inner group open and the two outer ones
\* closed, right after a click on a label
C34_Witness ==
    /\ fx.click = "navclick"
    /\ mob.isNavPanelOpen_
    /\ Cardinality(NavDivs) = 3
    /\ \E g \in doc.group.open : Len(g) = 2
    /\ Cardinality(doc.group.open) = 1

(***************************************************************************)
(* The critical images beacon.  The window is doc: host names what         *)
(* addHandler finds on it ("addEventListener", "attachEvent", or "onload"  *)
(* for neither), listeners are the functions registered for 'load',        *)
(* onload is the function in window.onload, written as the functions it    *)
(* calls in order (<<>> for none), timers counts the zero-delay timers     *)
(* that are due, loads the load events so far; images are the img elements *)
(* of the document followed by its input elements, each with its           *)
(* pagespeed_url_hash ("" for none), whether it has a size, and the top    *)
(* and left of elLocation_.  fx.click names the last step, fx.runs counts  *)
(* the calls of checkCriticalImages_, fx.checked says whether the last     *)
(* step called it, fx.sent holds the beacons the last step sent: the       *)
(* hashes of a beacon URL, which stays below MAX_URL_LEN.                  *)
(***************************************************************************)
Image(hash, sized, top) == [hash |-> hash, sized |-> sized, top |-> top, left |-> 0]

\* an image in the window, a second one at the same place, one without
\* size and one below the window
ImageKinds ==
    {Image("a", TRUE, 0), Image("b", TRUE, 0), Image("b", FALSE, 1),
     Image("", TRUE, 1), Image("c", TRUE, 2)}

\* lines 35-40 and 51-60: the constructor, in a window of height and width 1
CriticalImagesBeacon ==
    [windowSize_ |-> [height |-> 1, width |-> 1], imgLocations_ |-> {}]

\* lines 98-126: isCritical_ on the element; the key of imgLocations_ is
\* JSON.stringify of the location, one string per pair of numbers
isCritical_(s, element) ==
    LET elLocation == <<element.top, element.left>>
    IN  IF ~element.sized THEN [s |-> s, critical |-> FALSE]
        ELSE IF elLocation \in s.mob.imgLocations_
        THEN [s |-> s, critical |-> FALSE]
        ELSE [s |-> [s EXCEPT !.mob.imgLocations_ = @ \cup {elLocation}],
              critical |-> /\ element.top <= s.mob.windowSize_.height
                           /\ element.left <= s.mob.windowSize_.width]

\* lines 139-151: the loops over the elements, from the j-th on;
\* critical_imgs keeps its keys in the order they were added
RECURSIVE CriticalScan(_, _, _)
CriticalScan(s, j, critical_imgs) ==
    IF j > Len(s.doc.images) THEN [s |-> s, critical_imgs |-> critical_imgs]
    ELSE LET element == s.doc.images[j]
             c == isCritical_(s, element)
         IN  IF element.hash = "" THEN CriticalScan(s, j + 1, critical_imgs)
             ELSE CriticalScan(c.s, j + 1,
                      IF c.critical /\ ~Contains(critical_imgs, element.hash)
                      THEN Append(critical_imgs, element.hash)
                      ELSE critical_imgs)

\* lines 133-170
checkCriticalImages_(s) ==
    LET scan == CriticalScan(s, 1, <<>>)
        ran == [scan.s EXCEPT !.fx.runs = @ + 1, !.fx.checked = TRUE]
    IN  IF scan.critical_imgs # <<>>
        THEN [ran EXCEPT !.fx.sent = Append(@, scan.critical_imgs)]
        ELSE ran

ChecksAtOnce(s) == checkCriticalImages_(s)

\* lines 207-217: the handler sets a timer of delay 0 and returns
beacon_onload(s) == [s EXCEPT !.doc.timers = @ + 1]

\* lines 182-196: addHandler(window, 'load', func)
addHandler(s, func) ==
    IF s.doc.host \in {"addEventListener", "attachEvent"}
    THEN [s EXCEPT !.doc.listeners = Append(@, func)]
    ELSE [s EXCEPT !.doc.onload = <<func>> \o @]

\* lines 203-219
criticalImagesBeaconInit(s) ==
    addHandler([s EXCEPT !.mob = CriticalImagesBeacon], "beacon_onload")

\* the window calls the functions of a load event in turn
RECURSIVE CallAll(_, _, _)
CallAll(s, funcs, k) ==
    IF k > Len(funcs) THEN s
    ELSE CallAll(IF funcs[k] = "beacon_onload" THEN beacon_onload(s) ELSE s,
                 funcs, k + 1)

BeaconStep(name, s) ==
    [s EXCEPT !.fx = [click |-> name, sent |-> <<>>, checked |-> FALSE,
                      runs |-> s.fx.runs]]

InitBeacon ==
    /\ pc = "script"
    /\ navSections_ = <<>>
    /\ psLayoutMode = FALSE
    /\ navATags = <<>>
    /\ walked = <<>>
    /\ deduped = <<>>
    /\ navPanel_ = <<>>
    /\ threw = FALSE
    /\ mob = [windowSize_ |-> [height |-> 0, width |-> 0], imgLocations_ |-> {}]
    /\ \E host \in {"addEventListener", "attachEvent", "onload"},
          images \in SeqsUpTo(ImageKinds, MaxImages) :
           doc = [host |-> host, listeners |-> <<>>, onload |-> <<>>,
                  timers |-> 0, loads |-> 0, images |-> images]
    /\ fx = [click |-> "", sent |-> <<>>, checked |-> FALSE, runs |-> 0]

\* the script the server put into the page calls criticalImagesBeaconInit
\* while the page is loading
BeaconInit ==
    /\ pc = "script"
    /\ Becomes(criticalImagesBeaconInit(BeaconStep("init", State)))
    /\ pc' = "init"
    /\ UNCHANGED panelVars

\* a script of the page assigns its own handler to window.onload
PageSetsOnload ==
    /\ doc.loads = 0
    /\ doc.onload # <<"page">>
    /\ Becomes([BeaconStep("page", State) EXCEPT !.doc.onload = <<"page">>])
    /\ UNCHANGED <<pc, panelVars>>

\* the window's load event
WindowLoad ==
    /\ pc = "init"
    /\ doc.loads < MaxLoads
    /\ Becomes(CallAll([BeaconStep("load", State) EXCEPT !.doc.loads = @ + 1],
                       doc.listeners \o doc.onload, 1))
    /\ UNCHANGED <<pc, panelVars>>

\* a timer of beacon_onload is due: lines 214-216
BeaconTimer ==
    /\ doc.timers > 0
    /\ Becomes(checkCriticalImages_(
           [BeaconStep("timer", State) EXCEPT !.doc.timers = @ - 1]))
    /\ UNCHANGED <<pc, panelVars>>

NextBeacon ==
    \/ BeaconInit
    \/ PageSetsOnload
    \/ WindowLoad
    \/ BeaconTimer

SpecBeacon == InitBeacon /\ [][NextBeacon]_vars

\* C35 as stated: checkCriticalImages_ runs in a timer's step only, never
\* in the step of the load event, and once for each load event: every load
\* event has been followed by a run or has its timer still due
C35_OncePerLoadAfterTheHandler ==
    /\ fx.runs + doc.timers = doc.loads
    /\ fx.checked => fx.click = "timer" /\ doc.loads > 0

\* beacon_onload is among the functions a load event calls
Registered ==
    \/ "beacon_onload" \in Range(doc.listeners)
    \/ "beacon_onload" \in Range(doc.onload)

\* C35: checkCriticalImages_ runs in a timer's step only, never in the step
\* of a load event, and once for each load event that calls the handler:
\* every load event does when the handler was registered with
\* addEventListener or attachEvent, and none does once the page has put its
\* own function into window.onload where addHandler had to use that
C35_OncePerHandledLoadAfterTheHandler ==
    /\ [](fx.runs + doc.timers <= doc.loads)
    /\ [](fx.checked => fx.click = "timer" /\ doc.loads > 0)
    /\ []((pc = "init" /\ doc.host # "onload")
             => Registered /\ fx.runs + doc.timers = doc.loads)
    /\ [][/\ fx'.runs # fx.runs
              => /\ fx'.click = "timer"
                 /\ fx'.runs = fx.runs + 1
                 /\ doc'.timers = doc.timers - 1
                 /\ doc'.loads = doc.loads /\ doc.loads > 0
          /\ fx'.click = "load"
              => /\ fx'.runs = fx.runs
                 /\ doc'.timers = doc.timers + (IF Registered THEN 1 ELSE 0)]_vars

\* two load events, the timer of the first has run and that of the second
\* is due
C35_Witness ==
    /\ pc = "init"
    /\ Registered
    /\ doc.loads = 2
    /\ fx.runs = 1
    /\ doc.timers = 1
    /\ fx.click = "load"

(***************************************************************************)
(* The hidden header bar and the open panel.                               *)
(***************************************************************************)
\* C36: in every reachable state the header bar does not carry the class
\* 'hide' while isNavPanelOpen_ is true
C36_NeverHiddenWhileOpen ==
    ~(mob.isNavPanelOpen_ /\ "hide" \in doc.class.headerBar)

\* what the handlers do keep: no handler that finds the panel open adds the
\* class 'hide' to the header bar
C36_NeverHidesWhileOpen ==
    [][(pc = "ran" /\ mob.isNavPanelOpen_ /\ "hide" \notin doc.class.headerBar)
           => "hide" \notin doc'.class.headerBar]_vars

(***************************************************************************)
(* The sections of the id list and the ids given to parents.               *)
(***************************************************************************)
\* C37: in the id-list path, for every id of the list that resolves, the
\* section sequence holds the element the id resolves to or the parent of
\* that element
C37_EveryIdGivesElementOrParent ==
    (Discovered /\ ~HasPanel(doc.dom))
        => \A i \in 1..Len(doc.navigationalIds) :
               LET n == getElementById(doc.dom, doc.navigationalIds[i])
               IN  n # 0 => \E k \in 1..Len(mob.navSections_) :
                               mob.navSections_[k] \in {n, doc.dom.parent[n]}

\* two parents without id were given the same id, the first was taken for
\* its element, and the element of the second was dropped with its parent
SynthesizedIdShared ==
    /\ pc = "found"
    /\ ~fx.threw
    /\ \E i \in 1..Len(fx.found) : \E j \in 1..(i - 1) :
           /\ fx.found[j].synthesized /\ fx.found[i].synthesized
           /\ fx.found[j].parent # fx.found[i].parent
           /\ fx.found[j].parentId = fx.found[i].parentId
           /\ fx.found[j].enlarged
           /\ fx.found[i].pushed = 0
           /\ ~Contains(mob.navSections_, fx.found[i].element)
           /\ ~Contains(mob.navSections_, fx.found[i].parent)

(***************************************************************************)
(* The groups around a leaf and its depth label.                           *)
(***************************************************************************)
DepthOf(tag) == ToNumber(tag.level)

\* the links start at depth 0 and no link is more than one list deeper than
\* the link before it
StepsByOne(tags) ==
    /\ tags # <<>> => DepthOf(tags[1]) = 0
    /\ \A k \in 1..(Len(tags) - 1) :
           DepthOf(tags[k + 1]) > DepthOf(tags[k])
               => DepthOf(tags[k + 1]) = DepthOf(tags[k]) + 1

\* C38: in the tree of the walk, before dedup, a leaf lies inside at most
\* as many nested groups as its depth label says, and inside exactly as
\* many when the links of its section start at depth 0 and go deeper by one
\* list at a time
C38_GroupsAroundLeafMatchDepth ==
    Built =>
        \A i \in 1..Len(navATags) : \A j \in 1..Len(navATags[i]) :
            LET items == ItemsOf(walked)
                made == items[IndexOfSrc(items, <<i, j>>)]
            IN  made.kind = "leaf"
                    => /\ made.groups <= DepthOf(navATags[i][j])
                       /\ StepsByOne(navATags[i])
                              => made.groups = DepthOf(navATags[i][j])

\* every depth label of the page has one digit
OneDigitDepths ==
    \A i \in 1..Len(navATags) : \A j \in 1..Len(navATags[i]) :
        Len(navATags[i][j].level) = 1

\* what holds of the walk: the same on pages with list depths below 10
C38_GroupsMatchDepthBelowTen ==
    OneDigitDepths => C38_GroupsAroundLeafMatchDepth

\* a leaf at depth 2 inside three nested groups
LeafBelowItsDepth ==
    /\ Built
    /\ \E i \in 1..Len(navATags) : \E j \in 1..Len(navATags[i]) :
           LET items == ItemsOf(walked)
               made == items[IndexOfSrc(items, <<i, j>>)]
           IN  made.kind = "leaf" /\ made.groups = 3
                   /\ DepthOf(navATags[i][j]) = 2

\* links that go deeper by one list at a time, and the leaf at depth 10
\* inside nine nested groups
LeafAboveItsDepth ==
    /\ Built
    /\ \E i \in 1..Len(navATags) : \E j \in 1..Len(navATags[i]) :
           LET items == ItemsOf(walked)
               made == items[IndexOfSrc(items, <<i, j>>)]
           IN  /\ StepsByOne(navATags[i])
               /\ made.kind = "leaf" /\ made.groups = 9
               /\ DepthOf(navATags[i][j]) = 10

(***************************************************************************)
(* The cleanup of the panel and the list items it removes.                 *)
(***************************************************************************)
\* the number of nodes cleanup marks for deletion inside one list item of
\* the panel dedup left
Marked(item) == Len(CleanupQueueOf(item, item.path))

\* C39: cleanupNavPanel_ returns without an error for every panel content,
\* also when a list item holds two or more nodes marked for deletion; the
\* panel it leaves has none of the items that held a marked node
C39_CleanupCompletes ==
    Built =>
        /\ ~threw
        /\ \A k \in 1..Len(ItemsOf(deduped)) :
               LET item == ItemsOf(deduped)[k]
               IN  Marked(item) > 0
                       => \A m \in 1..Len(ItemsOf(navPanel_)) :
                              ItemsOf(navPanel_)[m].src # item.src

\* what holds of the cleanup: it raises an error exactly when some list
\* item holds two or more marked nodes, and without one it removes every
\* item that holds a marked node
C39_CleanupThrowsOnSharedItem ==
    Built =>
        /\ threw <=> \E k \in 1..Len(ItemsOf(deduped)) :
                         Marked(ItemsOf(deduped)[k]) >= 2
        /\ ~threw => \A k \in 1..Len(ItemsOf(deduped)) :
                         LET item == ItemsOf(deduped)[k]
                         IN  Marked(item) > 0
                                 => \A m \in 1..Len(ItemsOf(navPanel_)) :
                                        ItemsOf(navPanel_)[m].src # item.src

\* an anchor without href that holds the logo's image: its list item is
\* queued twice, and the cleanup ended by an error
SharedItemThrew ==
    /\ Built /\ threw
    /\ \E k \in 1..Len(ItemsOf(deduped)) :
           LET item == ItemsOf(deduped)[k]
           IN  item.a.href = NoHref /\ Contains(item.a.html, "<logo>")

(***************************************************************************)
(* The group items before and after dedup.                                 *)
(***************************************************************************)
\* the tree without its leaves: the group items, each with the groups of
\* its submenu, in the order of the panel
RECURSIVE GroupsOnly(_, _)
GroupsOnly(menu, k) ==
    IF k > Len(menu) THEN <<>>
    ELSE (IF menu[k].kind = "leaf" THEN <<>>
          ELSE <<[menu[k] EXCEPT !.sub = GroupsOnly(@, 1)]>>)
         \o GroupsOnly(menu, k + 1)

SrcsOf(tree) == {ItemsOf(tree)[k].src : k \in 1..Len(ItemsOf(tree))}

\* C40: dedupNavMenuItems_ removes leaf items only; the group items of the
\* walk, their labels, their nesting and their order are the same after
\* dedup as before it
C40_DedupKeepsTheGroups ==
    Built =>
        /\ GroupsOnly(deduped, 1) = GroupsOnly(walked, 1)
        /\ \A k \in 1..Len(ItemsOf(walked)) :
               LET item == ItemsOf(walked)[k]
               IN  item.src \notin SrcsOf(deduped) => item.kind = "leaf"

\* dedup removed a leaf, and kept a group whose label repeats the (href,
\* label) key of an anchor before it
C40_Witness ==
    /\ Built
    /\ \E k \in 1..Len(ItemsOf(walked)) :
           LET item == ItemsOf(walked)[k]
           IN  item.kind = "leaf" /\ item.src \notin SrcsOf(deduped)
    /\ \E k \in 1..Len(ItemsOf(walked)) : \E j \in 1..(k - 1) :
           LET item == ItemsOf(walked)[k]
               before == ItemsOf(walked)[j]
           IN  /\ item.kind # "leaf"
               /\ DedupKey(before.a) = DedupKey(item.a)
               /\ item.src \in SrcsOf(deduped)

====
